---- MODULE Spec2Model ----
(***************************************************************************)
(* Admission control of dbadmin: the token buckets and the rate limiter of *)
(* src/dbadmin/ai/rate_limiter.py, the circuit breaker of                  *)
(* src/dbadmin/connectors/postgresql.py, and the retry and fallback of     *)
(* LLMClient in src/dbadmin/ai/llm.py.                                     *)
(*                                                                         *)
(* Time.  Both clocks are counted in ticks; there are TicksPerMinute ticks *)
(* in a minute, so one tick is 60 / TicksPerMinute seconds.                *)
(*                                                                         *)
(* Token amounts.  The code keeps `tokens` as a float.  The model keeps it *)
(* as a fixed-point integer: the field tokens of a bucket record holds     *)
(* tokens * Scale, with Scale = TicksPerMinute.  A bucket built by the     *)
(* RateLimiter with refill rate rpm / 60.0 per second gains                *)
(* rpm / TicksPerMinute tokens per tick, that is exactly rpm fixed-point   *)
(* units per tick.  The field refill_rate of a bucket record holds the     *)
(* rate as fixed-point units per tick; capacity is in whole tokens.        *)
(*                                                                         *)
(* Steps.  A method of the RateLimiter is run by a thread as a sequence of *)
(* steps.  Code inside a `with lock:` block is one step when no statement  *)
(* outside a lock touches what it touches; the request bucket is written   *)
(* by `request_bucket.tokens += 1` with no lock held, so every read and    *)
(* every write of its tokens is a step of its own; the usage counters are  *)
(* read with no lock by whoever holds the dict get_usage_stats returned,   *)
(* so every write of a counter is a step of its own.  Every call of        *)
(* time.monotonic() or time.time() reads the clock at the step it is in.   *)
(***************************************************************************)
EXTENDS Integers, Sequences, FiniteSets, TLC

VARIABLES
    mono,             \* time.monotonic(), in ticks
    wall,             \* time.time(), in ticks
    limiters,         \* the RateLimiter objects built so far, in order: config,
                      \* _request_buckets, _token_buckets, _usage_stats
    global_limiter,   \* rate_limiter._global_limiter: 0 for None, else the place of the
                      \* RateLimiter in `limiters`
    pc,               \* per thread: the statement of the RateLimiter it is about to run
    cur,              \* per thread: the arguments and the locals of its call
    start,            \* observer: per thread, the limiters and the time when its call began
    last,             \* the last RateLimiter call that ended and how it ended
    admitted,         \* observer: per provider, calls of check_rate_limit that returned
    admitted_tokens,  \* observer: per provider, sum of their estimated_tokens
    calls,            \* observer: number of RateLimiter calls that ended so far
    held,             \* the value get_usage_stats returned last, as its caller holds it
    configures,       \* observer: number of configure_rate_limiter calls made so far
    bucket,           \* a TokenBucket used on its own (as in TestTokenBucket)
    hist,             \* observer: the calls made on that bucket, in order
    failure_count,        \* PostgreSQLConnector._failure_count : url -> int
    circuit_open_until,   \* PostgreSQLConnector._circuit_open_until : url -> time
    attempt_no,       \* per connector: attempts made by its connect() call, 0 when none runs
    stage,            \* per connector: the statement of connect() it is about to run
    loaded,           \* per connector: the locals of its attempt
    conn_last,        \* the last attempt of a connect() call that ended and how it ended
    streak,           \* observer: per url, failures since the last success, time of the
                      \* fifth, and failures recorded in all
    recorded,         \* observer: per url, _record_failure calls since the count was last 0
    connects,         \* observer: number of attempts begun so far
    fb,               \* the complete_with_fallback call in progress, or how the last one ended
    env,              \* os.environ: the names of the API-key variables that are set
    events            \* observer: what that call did so far, in order

vars == <<mono, wall, limiters, global_limiter, pc, cur, start,
          last, admitted, admitted_tokens, calls, held, configures, bucket, hist,
          failure_count, circuit_open_until, attempt_no, stage, loaded, conn_last,
          streak, recorded, connects, fb, env, events>>

heapVars == <<limiters, global_limiter>>
threadVars == <<pc, cur, start>>
observerVars == <<last, admitted, admitted_tokens, calls, held, configures>>
limiterVars == <<heapVars, threadVars, observerVars>>
bucketVars == <<bucket, hist>>
breakerVars == <<failure_count, circuit_open_until, attempt_no, stage, loaded, conn_last,
                 streak, recorded, connects>>
fbVars == <<fb, env, events>>

----------------------------------------------------------------------------
(* Bounds of the model *)

TicksPerMinute == 2
MaxMono == 2
MaxFallbackMono == 1
MaxCalls == 3
MaxThreadCalls == 4
MaxConfigures == 1
MaxOps == 3
MaxCapacity == 5
MaxRate == 2
MaxWall == 3
MaxConnects == 7
MaxRaceConnects == 7

\* How many ticks past the end of its wait a bucket is followed.
Horizon == 4

(* The limits of the configuration a caller passes to RateLimiter(config)
   or configure_rate_limiter(config): small ones, so that a few calls reach
   them, with one per-provider override. *)
RequestsPerMinute == 1
TokensPerMinute == 1000
OverrideRequestsPerMinute == 2
OverrideTokensPerMinute == 10

Scale == TicksPerMinute
Fx(n) == n * Scale

BucketAmounts == {1, 2, 3}
Providers == {"openai", "test_provider"}
Primaries == {"openai", "groq", "custom"}
AllProviders == Providers \cup {"openai", "groq", "openrouter", "custom"}
Threads == {"t1", "t2"}
Connectors == {"c1", "c2", "c3"}
url_of == [c \in Connectors |-> IF c = "c3" THEN "db2" ELSE "db1"]
Urls == {"db1", "db2"}
SmallEstimates == {3, 500}
EstimatedTokens == SmallEstimates \cup {120000}
ActualTokens == {200}

Min(a, b) == IF a <= b THEN a ELSE b
Max(a, b) == IF a >= b THEN a ELSE b

\* d[k] = v
DictSet(d, k, v) == [x \in DOMAIN d \cup {k} |-> IF x = k THEN v ELSE d[x]]
\* del d[k]
DictDel(d, k) == [x \in DOMAIN d \ {k} |-> d[x]]
\* d.get(k, default)
DictGet(d, k, default) == IF k \in DOMAIN d THEN d[k] ELSE default

----------------------------------------------------------------------------
(* TokenBucket *)

\* TokenBucket.__init__: a new bucket is full and was last refilled now.
NewBucket(capacity, refill_rate, t) ==
    [capacity |-> capacity, refill_rate |-> refill_rate,
     tokens |-> Fx(capacity), last_refill |-> t]

\* Mutant of Refilled: no tokens are added.
RefilledNothing(b, t) == b.tokens

\* TokenBucket._refill, lines 57-58, right-hand side: the tokens of the bucket
\* when the clock reads t
Refilled(b, t) ==
    Min(Fx(b.capacity), b.tokens + (t - b.last_refill) * b.refill_rate)

\* TokenBucket._refill
Refill(b, t) == [b EXCEPT !.tokens = Refilled(b, t), !.last_refill = t]

\* Mutant of Available: the test left out.
AvailableAlways(b, n) == TRUE

\* Mutant of Available: `>` in place of `>=`.
AvailableStrict(b, n) == b.tokens > Fx(n)

\* consume, line 72, and time_until_available, line 88: `self.tokens >= tokens`
Available(b, n) == b.tokens >= Fx(n)

\* consume, line 73: `self.tokens -= tokens`
Take(b, n) == [b EXCEPT !.tokens = @ - Fx(n)]

\* Mutant of Needed: a bucket in debt is taken as empty.
NeededClamped(b, n) == Fx(n) - Max(0, b.tokens)

\* time_until_available, line 90: `needed = tokens - self.tokens`
Needed(b, n) == Fx(n) - b.tokens

\* TokenBucket.consume with nothing running between its statements: the
\* return value and the bucket afterwards.
Consume(b, n, t) ==
    LET r == Refill(b, t)
    IN IF Available(r, n)
       THEN [ok |-> TRUE, bucket |-> Take(r, n)]
       ELSE [ok |-> FALSE, bucket |-> r]

\* TokenBucket.time_until_available with nothing running between its
\* statements: the wait is needed / refill_rate ticks, kept as the pair
\* (needed, rate); needed = 0 is the return value 0.0.
TimeUntilAvailable(b, n, t) ==
    LET r == Refill(b, t)
    IN [needed |-> IF Available(r, n) THEN 0 ELSE Needed(r, n),
        rate |-> r.refill_rate,
        bucket |-> r]

----------------------------------------------------------------------------
(* The state in which a part of the program has not run yet *)

NoLast == [thread |-> "", op |-> "none", limiter |-> 0, provider |-> "",
           estimated_tokens |-> 0, actual_tokens |-> 0, outcome |-> "",
           needed |-> 0, rate |-> 0]

NoCur == [op |-> "", limiter |-> 0, provider |-> "", estimated_tokens |-> 0,
          actual_tokens |-> 0, now |-> 0, val |-> 0, needed |-> 0, rate |-> 0]

NoStart == [limiters |-> <<>>, mono |-> 0]

NoHeld == [provider |-> "", given |-> <<>>, live |-> {}]

ThreadsIdle ==
    /\ pc = [t \in Threads |-> "idle"]
    /\ cur = [t \in Threads |-> NoCur]
    /\ start = [t \in Threads |-> NoStart]
    /\ last = NoLast
    /\ admitted = [p \in AllProviders |-> 0]
    /\ admitted_tokens = [p \in AllProviders |-> 0]
    /\ calls = 0
    /\ held = NoHeld
    /\ configures = 0

LimiterIdle ==
    /\ limiters = <<>>
    /\ global_limiter = 0
    /\ ThreadsIdle

NoBucket == [capacity |-> 0, refill_rate |-> 0, tokens |-> 0, last_refill |-> 0]

BucketIdle ==
    /\ bucket = NoBucket
    /\ hist = <<>>

NoAttempt == [connector |-> "", url |-> "", outcome |-> "", retry_after |-> 0,
              attempt |-> 0, now |-> 0, at |-> 0]

NoLoaded == [count |-> 0, error |-> "", now |-> 0, until |-> 0]

BreakerIdle ==
    /\ failure_count = <<>>
    /\ circuit_open_until = <<>>
    /\ attempt_no = [c \in Connectors |-> 0]
    /\ stage = [c \in Connectors |-> "idle"]
    /\ loaded = [c \in Connectors |-> NoLoaded]
    /\ conn_last = NoAttempt
    /\ streak = [u \in Urls |-> [n |-> 0, fifth_at |-> 0, total |-> 0]]
    /\ recorded = [u \in Urls |-> 0]
    /\ connects = 0

NoResult == [kind |-> "none", provider |-> "", model |-> "", used_fallback |-> FALSE,
             tokens_used |-> 0, errors |-> <<>>]

NoFb == [state |-> "idle", primary |-> "", estimated_tokens |-> 0, idx |-> 0,
         attempt |-> 0, limiter |-> 0, actual_tokens |-> 0, errors |-> <<>>,
         result |-> NoResult]

FbIdle ==
    /\ fb = NoFb
    /\ env = {}
    /\ events = <<>>

----------------------------------------------------------------------------
(* The bucket on its own, used by one caller *)

BucketConsume(n) ==
    /\ Len(hist) < MaxOps
    /\ LET c == Consume(bucket, n, mono)
       IN /\ bucket' = c.bucket
          /\ hist' = Append(hist, [op |-> "consume", n |-> n, ok |-> c.ok,
                                   needed |-> 0, at |-> mono])
    /\ UNCHANGED <<mono, wall, limiterVars, breakerVars, fbVars>>

BucketTimeUntilAvailable(n) ==
    /\ Len(hist) < MaxOps
    /\ LET w == TimeUntilAvailable(bucket, n, mono)
       IN /\ bucket' = w.bucket
          /\ hist' = Append(hist, [op |-> "time_until_available", n |-> n,
                                   ok |-> (w.needed = 0), needed |-> w.needed,
                                   at |-> mono])
    /\ UNCHANGED <<mono, wall, limiterVars, breakerVars, fbVars>>

Tick ==
    /\ mono < MaxMono
    /\ mono' = mono + 1
    /\ UNCHANGED <<wall, bucketVars, limiterVars, breakerVars, fbVars>>

BucketNext ==
    \/ \E n \in BucketAmounts : BucketConsume(n)
    \/ \E n \in BucketAmounts : BucketTimeUntilAvailable(n)
    \/ Tick

\* A TokenBucket built at time 0; nothing else of the program is in use.
BucketInit ==
    /\ mono = 0
    /\ wall = 0
    /\ \E capacity \in 1..MaxCapacity, rate \in 1..MaxRate :
           bucket = NewBucket(capacity, rate, 0)
    /\ hist = <<>>
    /\ LimiterIdle
    /\ BreakerIdle
    /\ FbIdle

SpecBucket == BucketInit /\ [][BucketNext]_vars

----------------------------------------------------------------------------
(* RateLimitConfig and RateLimiter *)

\* RateLimitConfig.provider_limits, the default
provider_limits ==
    [openai |-> [requests_per_minute |-> 60, tokens_per_minute |-> 150000],
     groq |-> [requests_per_minute |-> 30, tokens_per_minute |-> 100000],
     openrouter |-> [requests_per_minute |-> 100, tokens_per_minute |-> 200000],
     anthropic |-> [requests_per_minute |-> 50, tokens_per_minute |-> 100000],
     ollama |-> [requests_per_minute |-> 1000, tokens_per_minute |-> 10000000]]

\* RateLimitConfig(): every field at its default
DefaultConfig ==
    [requests_per_minute |-> 20, tokens_per_minute |-> 100000, enabled |-> TRUE,
     provider_limits |-> provider_limits]

\* A RateLimitConfig built by a caller, as the tests build theirs: small
\* limits, one per-provider override, enabled or not
CallerConfig(enabled) ==
    [requests_per_minute |-> RequestsPerMinute, tokens_per_minute |-> TokensPerMinute,
     enabled |-> enabled,
     provider_limits |-> ("openai" :> [requests_per_minute |-> OverrideRequestsPerMinute,
                                       tokens_per_minute |-> OverrideTokensPerMinute])]

\* The configurations a RateLimiter is built with.
Configs == {DefaultConfig, CallerConfig(TRUE), CallerConfig(FALSE)}

\* RateLimiter.__init__
NewLimiter(config) ==
    [config |-> config, request_buckets |-> <<>>, token_buckets |-> <<>>,
     usage_stats |-> <<>>]

\* RateLimiter._get_limits
GetLimits(config, provider) ==
    IF provider \in DOMAIN config.provider_limits
    THEN LET limits == config.provider_limits[provider]
         IN <<DictGet(limits, "requests_per_minute", config.requests_per_minute),
              DictGet(limits, "tokens_per_minute", config.tokens_per_minute)>>
    ELSE <<config.requests_per_minute, config.tokens_per_minute>>

\* _get_buckets, lines 131-133: the limiter L with the request bucket of the
\* provider built when the clock reads t.  A bucket of capacity c per minute
\* refills c / 60.0 per second: c units per tick.
WithRequestBucket(L, provider, t) ==
    LET rpm == GetLimits(L.config, provider)[1]
    IN [L EXCEPT !.request_buckets = DictSet(@, provider, NewBucket(rpm, rpm, t))]

\* Mutant of WithTokenBucket: the first use of any provider builds the
\* buckets of every provider.
WithTokenBucketEager(L, provider, t) ==
    [L EXCEPT
       !.request_buckets =
           [q \in Providers |->
               IF q \in DOMAIN @ THEN @[q]
               ELSE NewBucket(GetLimits(L.config, q)[1], GetLimits(L.config, q)[1], t)],
       !.token_buckets =
           [q \in Providers |->
               IF q \in DOMAIN @ THEN @[q]
               ELSE NewBucket(GetLimits(L.config, q)[2], GetLimits(L.config, q)[2], t)],
       !.usage_stats =
           [q \in Providers |->
               IF q \in DOMAIN @ THEN @[q] ELSE [requests |-> 0, tokens |-> 0]]]

\* _get_buckets, lines 134-135: the limiter L with the token bucket of the
\* provider built when the clock reads t, and its usage counters
WithTokenBucket(L, provider, t) ==
    LET tpm == GetLimits(L.config, provider)[2]
    IN [L EXCEPT !.token_buckets = DictSet(@, provider, NewBucket(tpm, tpm, t)),
                 !.usage_stats = DictSet(@, provider, [requests |-> 0, tokens |-> 0])]

\* RateLimiter._get_buckets with nothing running between its statements
GetBuckets(L, provider, t) ==
    IF provider \in DOMAIN L.request_buckets
    THEN L
    ELSE WithTokenBucket(WithRequestBucket(L, provider, t), provider, t)

\* Mutant of Bypassed: the enabled flag ignored.
BypassedNever(config) == FALSE

\* check_rate_limit and record_actual_tokens: `if not self.config.enabled: return`
Bypassed(config) == ~config.enabled

\* Mutant of Refunded: the request unit not given back.
RefundedNothing(read) == read

\* check_rate_limit, line 171: the value `request_bucket.tokens += 1` stores
\* when it read `read`
Refunded(read) == read + Fx(1)

\* RateLimiter.get_remaining_capacity, lines 226-227: the value reported for
\* a bucket (fixed-point)
Remaining(b) == Max(0, b.tokens)

\* check_rate_limit, line 180: `self._usage_stats[provider]["requests"] += 1`
TrackRequests(s) == [s EXCEPT !.requests = @ + 1]

\* Mutant of TrackTokens: the estimate not added to the token counter.
TrackTokensNothing(s, estimated_tokens) == s

\* check_rate_limit, line 181:
\* `self._usage_stats[provider]["tokens"] += estimated_tokens`
TrackTokens(s, estimated_tokens) == [s EXCEPT !.tokens = @ + estimated_tokens]

\* Mutant of Adjust: only an overrun is charged, an unused estimate is not
\* credited back.
AdjustDebitOnly(b, actual_tokens, estimated_tokens) ==
    LET diff == actual_tokens - estimated_tokens
    IN IF diff > 0 THEN [b EXCEPT !.tokens = @ - Fx(diff)] ELSE b

\* record_actual_tokens, lines 199-202: the token bucket after the adjustment
Adjust(b, actual_tokens, estimated_tokens) ==
    LET diff == actual_tokens - estimated_tokens
    IN IF diff # 0 THEN [b EXCEPT !.tokens = @ - Fx(diff)] ELSE b

\* RateLimiter.get_usage_stats, lines 213-216: what the caller receives.
\* `given` is the value at the return, a map from provider to counters;
\* `live` holds the providers whose counters the returned object shares
\* with the limiter: .get(provider, default) hands out the dict stored in
\* _usage_stats itself, and dict(self._usage_stats) copies the outer dict
\* only.  provider = "" stands for None.
UsageStatsResult(L, provider) ==
    IF provider # ""
    THEN [provider |-> provider,
          given |-> (provider :> DictGet(L.usage_stats, provider,
                                         [requests |-> 0, tokens |-> 0])),
          live |-> {provider} \cap DOMAIN L.usage_stats]
    ELSE [provider |-> "", given |-> L.usage_stats, live |-> DOMAIN L.usage_stats]

\* What the caller reads in the object it received, given the counters the
\* limiter holds now.
Seen(h, stats) ==
    [p \in DOMAIN h.given |-> IF p \in h.live THEN stats[p] ELSE h.given[p]]

----------------------------------------------------------------------------
(* The methods of RateLimiter, run by threads.  cur[t].limiter is the place *)
(* of the RateLimiter the thread calls, cur[t].provider its argument.       *)

Lim(t) == limiters[cur[t].limiter]
RequestBucket(t) == Lim(t).request_buckets[cur[t].provider]
TokenBucket(t) == Lim(t).token_buckets[cur[t].provider]

\* The statements a thread runs while it holds request_bucket._lock.
RequestLocked == {"consume_refill", "consume_refilled", "consume_test", "consume_take",
                  "consume_taken", "wait_refill", "wait_refilled", "wait_test",
                  "wait_needed"}

\* The statements a thread runs while it holds token_bucket._lock.
TokenLocked == {"tokens_refilled", "take_tokens", "token_wait_refilled"}

\* Another thread is inside `with self._lock` of the limiter at place i.
MapLockHeld(i) ==
    \E u \in Threads : /\ pc[u] \in {"get_buckets_token", "track_tokens"}
                       /\ cur[u].limiter = i

\* Another thread is inside `with self._lock` of the request bucket.
RequestLockHeld(i, provider) ==
    \E u \in Threads : /\ pc[u] \in RequestLocked
                       /\ cur[u].limiter = i
                       /\ cur[u].provider = provider

\* Another thread is inside `with self._lock` of the token bucket.
TokenLockHeld(i, provider) ==
    \E u \in Threads : /\ pc[u] \in TokenLocked
                       /\ cur[u].limiter = i
                       /\ cur[u].provider = provider

\* Calls that have begun: those that ended and those still running.
Begun == calls + Cardinality({u \in Threads : pc[u] # "idle"})

\* The arguments of a call, as the thread keeps them.
Args(op, i, provider, estimated_tokens, actual_tokens) ==
    [NoCur EXCEPT !.op = op, !.limiter = i, !.provider = provider,
                  !.estimated_tokens = estimated_tokens,
                  !.actual_tokens = actual_tokens]

\* What the observer notes when a call begins.
Started == [limiters |-> limiters, mono |-> mono]

\* The thread goes on to the statement `where` of its call.
Goto(t, where) ==
    /\ pc' = [pc EXCEPT ![t] = where]
    /\ UNCHANGED <<start, observerVars>>

\* The call of the thread ends: it returns, or raises RateLimitExceeded with
\* retry_after_seconds = needed / rate.
EndOf(t, c, outcome, needed, rate) ==
    /\ pc' = [pc EXCEPT ![t] = "idle"]
    /\ cur' = [cur EXCEPT ![t] = NoCur]
    /\ start' = [start EXCEPT ![t] = NoStart]
    /\ last' = [thread |-> t, op |-> c.op, limiter |-> c.limiter,
                provider |-> c.provider,
                estimated_tokens |-> c.estimated_tokens,
                actual_tokens |-> c.actual_tokens,
                outcome |-> outcome, needed |-> needed, rate |-> rate]
    /\ calls' = calls + 1
    /\ UNCHANGED configures
    /\ IF c.op = "check_rate_limit" /\ outcome = "returned"
       THEN /\ admitted' = [admitted EXCEPT ![c.provider] = @ + 1]
            /\ admitted_tokens' = [admitted_tokens EXCEPT ![c.provider] =
                                       @ + c.estimated_tokens]
       ELSE UNCHANGED <<admitted, admitted_tokens>>

\* The call in progress of the thread ends.
End(t, outcome, needed, rate) == EndOf(t, cur[t], outcome, needed, rate)

SetRequestBucket(t, b) ==
    /\ limiters' = [limiters EXCEPT
                       ![cur[t].limiter].request_buckets[cur[t].provider] = b]
    /\ UNCHANGED global_limiter

SetTokenBucket(t, b) ==
    /\ limiters' = [limiters EXCEPT
                       ![cur[t].limiter].token_buckets[cur[t].provider] = b]
    /\ UNCHANGED global_limiter

Elsewhere == <<wall, bucketVars, breakerVars, fbVars>>

\* Where a method goes on after _get_buckets.
AfterGetBuckets(op) ==
    CASE op = "check_rate_limit" -> "consume"
      [] op = "record_actual_tokens" -> "adjust"
      [] OTHER -> "read_requests"

\* check_rate_limit, lines 153-156, record_actual_tokens, lines 193-196, and
\* get_remaining_capacity, line 224, run by thread t with the arguments c:
\* the enabled test (not made by get_remaining_capacity); then _get_buckets,
\* lines 129-133 (`with self._lock`), up to the request bucket it builds for
\* a provider it has not seen
Enter(t, c) ==
    LET L == limiters[c.limiter]
    IN IF c.op # "get_remaining_capacity" /\ Bypassed(L.config)
       THEN /\ EndOf(t, c, "returned", 0, 0)
            /\ UNCHANGED <<heapVars, held>>
       ELSE /\ ~MapLockHeld(c.limiter)
            /\ cur' = [cur EXCEPT ![t] = c]
            /\ start' = [start EXCEPT ![t] = Started]
            /\ UNCHANGED observerVars
            /\ IF c.provider \in DOMAIN L.request_buckets
               THEN /\ pc' = [pc EXCEPT ![t] = AfterGetBuckets(c.op)]
                    /\ UNCHANGED heapVars
               ELSE /\ pc' = [pc EXCEPT ![t] = "get_buckets_token"]
                    /\ limiters' = [limiters EXCEPT ![c.limiter] =
                                        WithRequestBucket(@, c.provider, mono)]
                    /\ UNCHANGED global_limiter

\* limiter.check_rate_limit(provider, estimated_tokens) is called on the
\* RateLimiter at place i
ThreadCheckRateLimit(t, i, provider, estimated_tokens) ==
    /\ pc[t] = "idle"
    /\ Enter(t, Args("check_rate_limit", i, provider, estimated_tokens, 0))
    /\ UNCHANGED <<mono, Elsewhere>>

\* limiter.record_actual_tokens(provider, actual_tokens, estimated_tokens)
ThreadRecordActualTokens(t, i, provider, actual_tokens, estimated_tokens) ==
    /\ pc[t] = "idle"
    /\ Enter(t, Args("record_actual_tokens", i, provider, estimated_tokens,
                     actual_tokens))
    /\ UNCHANGED <<mono, Elsewhere>>

\* limiter.get_remaining_capacity(provider)
ThreadGetRemainingCapacity(t, i, provider) ==
    /\ pc[t] = "idle"
    /\ Enter(t, Args("get_remaining_capacity", i, provider, 0, 0))
    /\ UNCHANGED <<mono, Elsewhere>>

\* limiter.get_usage_stats(provider), lines 213-216, inside `with self._lock`
ThreadGetUsageStats(t, i, provider) ==
    /\ pc[t] = "idle"
    /\ ~MapLockHeld(i)
    /\ held' = UsageStatsResult(limiters[i], provider)
    /\ last' = [NoLast EXCEPT !.thread = t, !.op = "get_usage_stats", !.limiter = i,
                              !.provider = provider, !.outcome = "returned"]
    /\ calls' = calls + 1
    /\ UNCHANGED <<heapVars, threadVars, admitted, admitted_tokens, configures>>
    /\ UNCHANGED <<mono, Elsewhere>>

\* complete, line 217, after get_rate_limiter returned: check_rate_limit is
\* called on the RateLimiter the thread received
ThreadGetBuckets(t) ==
    /\ pc[t] = "get_buckets"
    /\ Enter(t, cur[t])
    /\ UNCHANGED <<mono, Elsewhere>>

\* _get_buckets, lines 134-137: the token bucket and the usage counters
ThreadGetBucketsToken(t) ==
    /\ pc[t] = "get_buckets_token"
    /\ limiters' = [limiters EXCEPT ![cur[t].limiter] =
                        WithTokenBucket(@, cur[t].provider, mono)]
    /\ Goto(t, AfterGetBuckets(cur[t].op))
    /\ UNCHANGED <<global_limiter, cur>>
    /\ UNCHANGED <<mono, Elsewhere>>

\* request_bucket.consume(1), line 159, and request_bucket.time_until_available(1),
\* line 160: the lock is taken, and _refill, line 56, reads the clock
ThreadRefillClock(t) ==
    /\ pc[t] \in {"consume", "wait"}
    /\ ~RequestLockHeld(cur[t].limiter, cur[t].provider)
    /\ cur' = [cur EXCEPT ![t].now = mono]
    /\ Goto(t, IF pc[t] = "consume" THEN "consume_refill" ELSE "wait_refill")
    /\ UNCHANGED heapVars
    /\ UNCHANGED <<mono, Elsewhere>>

\* _refill, lines 57-58, right-hand side: the tokens of the request bucket
\* are read and the refilled amount is computed
ThreadRefillLoad(t) ==
    /\ pc[t] \in {"consume_refill", "wait_refill"}
    /\ cur' = [cur EXCEPT ![t].val = Refilled(RequestBucket(t), cur[t].now)]
    /\ Goto(t, IF pc[t] = "consume_refill" THEN "consume_refilled" ELSE "wait_refilled")
    /\ UNCHANGED heapVars
    /\ UNCHANGED <<mono, Elsewhere>>

\* _refill, lines 58-59: the amount and the time of the refill are stored
ThreadRefillStore(t) ==
    /\ pc[t] \in {"consume_refilled", "wait_refilled"}
    /\ SetRequestBucket(t, [RequestBucket(t) EXCEPT !.tokens = cur[t].val,
                                                    !.last_refill = cur[t].now])
    /\ Goto(t, IF pc[t] = "consume_refilled" THEN "consume_test" ELSE "wait_test")
    /\ UNCHANGED cur
    /\ UNCHANGED <<mono, Elsewhere>>

\* consume, line 72, on the request bucket: `if self.tokens >= tokens`; when
\* it fails the lock is released and consume returns False
ThreadConsumeTest(t) ==
    /\ pc[t] = "consume_test"
    /\ Goto(t, IF Available(RequestBucket(t), 1) THEN "consume_take" ELSE "wait")
    /\ UNCHANGED <<heapVars, cur>>
    /\ UNCHANGED <<mono, Elsewhere>>

\* consume, line 73, on the request bucket: `self.tokens -= tokens`, the read
ThreadConsumeLoad(t) ==
    /\ pc[t] = "consume_take"
    /\ cur' = [cur EXCEPT ![t].val = Take(RequestBucket(t), 1).tokens]
    /\ Goto(t, "consume_taken")
    /\ UNCHANGED heapVars
    /\ UNCHANGED <<mono, Elsewhere>>

\* consume, lines 73-74, on the request bucket: `self.tokens -= tokens`, the
\* store; the lock is released and consume returns True
ThreadConsumeStore(t) ==
    /\ pc[t] = "consume_taken"
    /\ SetRequestBucket(t, [RequestBucket(t) EXCEPT !.tokens = cur[t].val])
    /\ Goto(t, "consume_tokens")
    /\ UNCHANGED cur
    /\ UNCHANGED <<mono, Elsewhere>>

\* time_until_available, lines 88-89, on the request bucket: the test; when
\* it holds the wait is 0.0, and check_rate_limit raises (lines 161-165)
ThreadWaitTest(t) ==
    /\ pc[t] = "wait_test"
    /\ IF Available(RequestBucket(t), 1)
       THEN /\ End(t, "request_limit", 0, RequestBucket(t).refill_rate)
            /\ UNCHANGED held
       ELSE /\ Goto(t, "wait_needed")
            /\ UNCHANGED cur
    /\ UNCHANGED heapVars
    /\ UNCHANGED <<mono, Elsewhere>>

\* time_until_available, lines 90-91, on the request bucket: the tokens are
\* read again for `needed`; check_rate_limit raises (lines 161-165)
ThreadWaitNeeded(t) ==
    /\ pc[t] = "wait_needed"
    /\ End(t, "request_limit", Needed(RequestBucket(t), 1), RequestBucket(t).refill_rate)
    /\ UNCHANGED <<heapVars, held>>
    /\ UNCHANGED <<mono, Elsewhere>>

\* token_bucket.consume(estimated_tokens), line 168, and
\* token_bucket.time_until_available(estimated_tokens), line 169: the lock is
\* taken, _refill reads the clock and computes the refilled amount
ThreadTokenRefillLoad(t) ==
    /\ pc[t] \in {"consume_tokens", "token_wait"}
    /\ ~TokenLockHeld(cur[t].limiter, cur[t].provider)
    /\ cur' = [cur EXCEPT ![t].now = mono, ![t].val = Refilled(TokenBucket(t), mono)]
    /\ Goto(t, IF pc[t] = "consume_tokens" THEN "tokens_refilled"
               ELSE "token_wait_refilled")
    /\ UNCHANGED heapVars
    /\ UNCHANGED <<mono, Elsewhere>>

\* _refill, lines 58-59, on the token bucket inside consume: the stores
ThreadTokenRefillStore(t) ==
    /\ pc[t] = "tokens_refilled"
    /\ SetTokenBucket(t, [TokenBucket(t) EXCEPT !.tokens = cur[t].val,
                                                !.last_refill = cur[t].now])
    /\ Goto(t, "take_tokens")
    /\ UNCHANGED cur
    /\ UNCHANGED <<mono, Elsewhere>>

\* consume, lines 72-75, on the token bucket: the test and the debit
ThreadTakeTokens(t) ==
    /\ pc[t] = "take_tokens"
    /\ IF Available(TokenBucket(t), cur[t].estimated_tokens)
       THEN /\ SetTokenBucket(t, Take(TokenBucket(t), cur[t].estimated_tokens))
            /\ Goto(t, "track_usage")
       ELSE /\ UNCHANGED heapVars
            /\ Goto(t, "token_wait")
    /\ UNCHANGED cur
    /\ UNCHANGED <<mono, Elsewhere>>

\* time_until_available, lines 86-91, on the token bucket: the stores of
\* _refill, the test and `needed`; the wait is kept until the call raises
ThreadTokenWait(t) ==
    /\ pc[t] = "token_wait_refilled"
    /\ LET r == [TokenBucket(t) EXCEPT !.tokens = cur[t].val,
                                       !.last_refill = cur[t].now]
       IN /\ SetTokenBucket(t, r)
          /\ cur' = [cur EXCEPT ![t].needed = IF Available(r, cur[t].estimated_tokens)
                                              THEN 0
                                              ELSE Needed(r, cur[t].estimated_tokens),
                                ![t].rate = r.refill_rate]
    /\ Goto(t, "refund_load")
    /\ UNCHANGED <<mono, Elsewhere>>

\* line 171, `request_bucket.tokens += 1`: the read (no lock held)
ThreadRefundLoad(t) ==
    /\ pc[t] = "refund_load"
    /\ cur' = [cur EXCEPT ![t].val = RequestBucket(t).tokens]
    /\ Goto(t, "refund_store")
    /\ UNCHANGED heapVars
    /\ UNCHANGED <<mono, Elsewhere>>

\* line 171, `request_bucket.tokens += 1`: the store (no lock held); then
\* check_rate_limit raises (lines 172-176)
ThreadRefundStore(t) ==
    /\ pc[t] = "refund_store"
    /\ SetRequestBucket(t, [RequestBucket(t) EXCEPT !.tokens = Refunded(cur[t].val)])
    /\ End(t, "token_limit", cur[t].needed, cur[t].rate)
    /\ UNCHANGED held
    /\ UNCHANGED <<mono, Elsewhere>>

\* lines 179-180: `with self._lock` is entered and the request counter of
\* the provider is stored.  The counters are the dict get_usage_stats hands
\* out, which its holder reads with no lock, so each store is a step.
ThreadTrackRequests(t) ==
    /\ pc[t] = "track_usage"
    /\ ~MapLockHeld(cur[t].limiter)
    /\ limiters' = [limiters EXCEPT ![cur[t].limiter].usage_stats[cur[t].provider] =
                        TrackRequests(@)]
    /\ Goto(t, "track_tokens")
    /\ UNCHANGED <<global_limiter, cur>>
    /\ UNCHANGED <<mono, Elsewhere>>

\* line 181: the token counter of the provider is stored, the lock is
\* released and check_rate_limit returns
ThreadTrackTokens(t) ==
    /\ pc[t] = "track_tokens"
    /\ limiters' = [limiters EXCEPT ![cur[t].limiter].usage_stats[cur[t].provider] =
                        TrackTokens(@, cur[t].estimated_tokens)]
    /\ End(t, "returned", 0, 0)
    /\ UNCHANGED <<global_limiter, held>>
    /\ UNCHANGED <<mono, Elsewhere>>

\* record_actual_tokens, lines 199-202: the adjustment (`with token_bucket._lock`)
ThreadAdjust(t) ==
    /\ pc[t] = "adjust"
    /\ \/ cur[t].actual_tokens = cur[t].estimated_tokens
       \/ ~TokenLockHeld(cur[t].limiter, cur[t].provider)
    /\ SetTokenBucket(t, Adjust(TokenBucket(t), cur[t].actual_tokens,
                                cur[t].estimated_tokens))
    /\ End(t, "returned", 0, 0)
    /\ UNCHANGED held
    /\ UNCHANGED <<mono, Elsewhere>>

\* get_remaining_capacity, line 226: the tokens of the request bucket are
\* read (no lock held)
ThreadReadRequests(t) ==
    /\ pc[t] = "read_requests"
    /\ cur' = [cur EXCEPT ![t].val = Remaining(RequestBucket(t))]
    /\ Goto(t, "read_tokens")
    /\ UNCHANGED heapVars
    /\ UNCHANGED <<mono, Elsewhere>>

\* get_remaining_capacity, lines 227-228: the tokens of the token bucket are
\* read (no lock held) and the two values are returned, here as `needed`
\* (requests) and `rate` (tokens) of the call record
ThreadReadTokens(t) ==
    /\ pc[t] = "read_tokens"
    /\ End(t, "returned", cur[t].val, Remaining(TokenBucket(t)))
    /\ UNCHANGED <<heapVars, held>>
    /\ UNCHANGED <<mono, Elsewhere>>

\* Time passes on the monotonic clock.
Elapse ==
    /\ mono < MaxMono
    /\ mono' = mono + 1
    /\ UNCHANGED <<limiterVars, Elsewhere>>

\* A step of check_rate_limit in progress in thread t, after _get_buckets.
CheckStep(t) ==
    \/ ThreadRefillClock(t)
    \/ ThreadRefillLoad(t)
    \/ ThreadRefillStore(t)
    \/ ThreadConsumeTest(t)
    \/ ThreadConsumeLoad(t)
    \/ ThreadConsumeStore(t)
    \/ ThreadWaitTest(t)
    \/ ThreadWaitNeeded(t)
    \/ ThreadTokenRefillLoad(t)
    \/ ThreadTokenRefillStore(t)
    \/ ThreadTakeTokens(t)
    \/ ThreadTokenWait(t)
    \/ ThreadRefundLoad(t)
    \/ ThreadRefundStore(t)
    \/ ThreadTrackRequests(t)
    \/ ThreadTrackTokens(t)

\* A step of a call in progress of thread t.
ThreadStep(t) ==
    \/ ThreadGetBucketsToken(t)
    \/ CheckStep(t)
    \/ ThreadAdjust(t)
    \/ ThreadReadRequests(t)
    \/ ThreadReadTokens(t)

\* A call of a method of the RateLimiter at place i by thread t.
ThreadCall(t, i) ==
    \/ \E p \in Providers, e \in EstimatedTokens : ThreadCheckRateLimit(t, i, p, e)
    \/ \E p \in Providers, a \in ActualTokens, e \in EstimatedTokens :
           ThreadRecordActualTokens(t, i, p, a, e)
    \/ \E p \in Providers \cup {""} : ThreadGetUsageStats(t, i, p)
    \/ \E p \in Providers : ThreadGetRemainingCapacity(t, i, p)

\* One RateLimiter, built with one of the configurations at time 0, and no
\* call made yet.
Init ==
    /\ mono = 0
    /\ wall = 0
    /\ \E config \in Configs : limiters = <<NewLimiter(config)>>
    /\ global_limiter = 0
    /\ ThreadsIdle
    /\ BucketIdle
    /\ BreakerIdle
    /\ FbIdle

\* The RateLimiter used by one caller: a call begins when the one before
\* has ended.
Next ==
    \/ Begun < MaxCalls /\ ThreadCall("t1", 1)
    \/ ThreadStep("t1")
    \/ Elapse

Spec == Init /\ [][Next]_vars

\* A call by one of several threads that share the RateLimiter, all for the
\* provider with the override.
SharedCall(t, i) ==
    \/ \E e \in SmallEstimates : ThreadCheckRateLimit(t, i, "openai", e)
    \/ \E a \in ActualTokens, e \in SmallEstimates :
           ThreadRecordActualTokens(t, i, "openai", a, e)
    \/ ThreadGetUsageStats(t, i, "openai")
    \/ ThreadGetRemainingCapacity(t, i, "openai")

\* One enabled RateLimiter built by its caller at time 0.
ThreadsInit ==
    /\ mono = 0
    /\ wall = 0
    /\ limiters = <<NewLimiter(CallerConfig(TRUE))>>
    /\ global_limiter = 0
    /\ ThreadsIdle
    /\ BucketIdle
    /\ BreakerIdle
    /\ FbIdle

\* The RateLimiter used by several threads, whose calls all fall within one
\* tick of the clock.
ThreadsNext ==
    \/ Begun < MaxThreadCalls /\ \E t \in Threads : SharedCall(t, 1)
    \/ \E t \in Threads : ThreadStep(t)

SpecThreads == ThreadsInit /\ [][ThreadsNext]_vars

----------------------------------------------------------------------------
(* The circuit breaker of PostgreSQLConnector.  Its state is the pair of    *)
(* class-level dicts, keyed by connection URL.  connect() takes no lock, so *)
(* every read and every write of a dict, and every call of time.time(), is  *)
(* a step of its own.                                                       *)

FAILURE_THRESHOLD == 5
\* _CIRCUIT_TIMEOUT = 60.0 seconds, in ticks
CIRCUIT_TIMEOUT == TicksPerMinute
\* stop_after_attempt(3)
STOP_AFTER_ATTEMPT == 3

\* Mutant of Opens: `>` in place of `>=`, the circuit opens one failure late.
OpensLate(count) == count > FAILURE_THRESHOLD

\* _record_failure, line 101: `self._failure_count[self.url] >= self._FAILURE_THRESHOLD`
Opens(count) == count >= FAILURE_THRESHOLD

\* Mutant of RecordSuccessCount: the failure count is kept.
RecordSuccessCountKept(fc, url) == fc

\* _record_success, line 107: `self._failure_count[self.url] = 0`
RecordSuccessCount(fc, url) == DictSet(fc, url, 0)

\* Mutant of ExpiredCount: the failure count is kept when the cool-down is
\* found to be over.
ExpiredCountKept(fc, url) == fc

\* _check_circuit_breaker, line 96: `self._failure_count[self.url] = 0`
ExpiredCount(fc, url) == DictSet(fc, url, 0)

\* The outcomes of acquiring a connection (_get_pool, getconn): it succeeds,
\* raises psycopg.OperationalError or ConnectionError, or raises another error.
Acquisitions == {"connected", "operational_error", "other_error"}

\* tenacity's retry of connect(): after attempt number k that ended with
\* `outcome`, the attempts made so far if another attempt follows, else 0.
\* The error raised for an open circuit is a ConnectionError, which is
\* retried as psycopg.OperationalError is; KeyError and other errors are not.
Retry(k, outcome) ==
    IF outcome \in {"circuit_open", "operational_error"} /\ k < STOP_AFTER_ATTEMPT
    THEN k
    ELSE 0

\* The streak of failures of a url after _record_success, or after the count
\* of a failure was stored.
StreakAfter(s, outcome) ==
    IF outcome = "connected" THEN [n |-> 0, fifth_at |-> s.fifth_at, total |-> s.total]
    ELSE [n |-> s.n + 1, fifth_at |-> s.fifth_at, total |-> s.total + 1]

\* The connector goes on to the statement `where` of its attempt.
ConnGoto(c, where) ==
    /\ stage' = [stage EXCEPT ![c] = where]
    /\ UNCHANGED <<attempt_no, conn_last>>

\* The attempt of connector c ends with `outcome`: the retry decorator
\* decides whether connect() runs again.
ConnEnd(c, outcome, retry_after) ==
    /\ attempt_no' = [attempt_no EXCEPT ![c] = Retry(@ + 1, outcome)]
    /\ conn_last' = [connector |-> c, url |-> url_of[c], outcome |-> outcome,
                     retry_after |-> retry_after, attempt |-> attempt_no[c] + 1,
                     now |-> loaded[c].now, at |-> wall]
    /\ stage' = [stage EXCEPT ![c] = "idle"]
    /\ loaded' = [loaded EXCEPT ![c] = NoLoaded]

NotBreaker == <<mono, limiterVars, bucketVars, fbVars>>

\* connect, line 117, and _check_circuit_breaker, line 87: an attempt of
\* connect() begins with `if self.url in self._circuit_open_until`
ConnCheckTest(c) ==
    /\ stage[c] = "idle"
    /\ connects' = connects + 1
    /\ ConnGoto(c, IF url_of[c] \in DOMAIN circuit_open_until
                   THEN "check_clock" ELSE "acquire")
    /\ UNCHANGED <<failure_count, circuit_open_until, loaded, streak, recorded>>
    /\ UNCHANGED <<wall, NotBreaker>>

\* _check_circuit_breaker, line 88, left-hand side: time.time()
ConnCheckClock(c) ==
    /\ stage[c] = "check_clock"
    /\ loaded' = [loaded EXCEPT ![c].now = wall]
    /\ ConnGoto(c, "check_read")
    /\ UNCHANGED <<failure_count, circuit_open_until, streak, recorded, connects>>
    /\ UNCHANGED <<wall, NotBreaker>>

\* _check_circuit_breaker, line 88: the entry is read and compared with the
\* time; the read raises KeyError when the entry is gone, and connect()
\* ends with it
ConnCheckRead(c) ==
    /\ stage[c] = "check_read"
    /\ IF url_of[c] \notin DOMAIN circuit_open_until
       THEN ConnEnd(c, "key_error", 0)
       ELSE /\ ConnGoto(c, IF loaded[c].now < circuit_open_until[url_of[c]]
                           THEN "raise_read" ELSE "check_del")
            /\ UNCHANGED loaded
    /\ UNCHANGED <<failure_count, circuit_open_until, streak, recorded, connects>>
    /\ UNCHANGED <<wall, NotBreaker>>

\* _check_circuit_breaker, line 91: the entry is read again for the message
\* of the error; KeyError when it is gone
ConnRaiseRead(c) ==
    /\ stage[c] = "raise_read"
    /\ IF url_of[c] \notin DOMAIN circuit_open_until
       THEN ConnEnd(c, "key_error", 0)
       ELSE /\ loaded' = [loaded EXCEPT ![c].until = circuit_open_until[url_of[c]]]
            /\ ConnGoto(c, "raise_clock")
    /\ UNCHANGED <<failure_count, circuit_open_until, streak, recorded, connects>>
    /\ UNCHANGED <<wall, NotBreaker>>

\* _check_circuit_breaker, lines 89-92: time.time() is read again for the
\* message, and ConnectionError is raised
ConnRaise(c) ==
    /\ stage[c] = "raise_clock"
    /\ ConnEnd(c, "circuit_open", loaded[c].until - wall)
    /\ UNCHANGED <<failure_count, circuit_open_until, streak, recorded, connects>>
    /\ UNCHANGED <<wall, NotBreaker>>

\* _check_circuit_breaker, line 95: `del self._circuit_open_until[self.url]`,
\* KeyError when the entry is gone
ConnCheckDel(c) ==
    /\ stage[c] = "check_del"
    /\ IF url_of[c] \notin DOMAIN circuit_open_until
       THEN /\ ConnEnd(c, "key_error", 0)
            /\ UNCHANGED circuit_open_until
       ELSE /\ circuit_open_until' = DictDel(circuit_open_until, url_of[c])
            /\ ConnGoto(c, "check_reset")
            /\ UNCHANGED loaded
    /\ UNCHANGED <<failure_count, streak, recorded, connects>>
    /\ UNCHANGED <<wall, NotBreaker>>

\* _check_circuit_breaker, line 96: `self._failure_count[self.url] = 0`
ConnCheckReset(c) ==
    /\ stage[c] = "check_reset"
    /\ failure_count' = ExpiredCount(failure_count, url_of[c])
    /\ recorded' = [recorded EXCEPT ![url_of[c]] = 0]
    /\ ConnGoto(c, "acquire")
    /\ UNCHANGED <<circuit_open_until, loaded, streak, connects>>
    /\ UNCHANGED <<wall, NotBreaker>>

\* connect, lines 119-121, and _record_success, line 107: a connection is
\* acquired and the failure count is set to 0
ConnConnected(c) ==
    /\ stage[c] = "acquire"
    /\ failure_count' = RecordSuccessCount(failure_count, url_of[c])
    /\ recorded' = [recorded EXCEPT ![url_of[c]] = 0]
    /\ streak' = [streak EXCEPT ![url_of[c]] = StreakAfter(@, "connected")]
    /\ ConnGoto(c, "success_test")
    /\ UNCHANGED <<circuit_open_until, loaded, connects>>
    /\ UNCHANGED <<wall, NotBreaker>>

\* _record_success, line 108: `if self.url in self._circuit_open_until`;
\* when it is not, connect() returns
ConnSuccessTest(c) ==
    /\ stage[c] = "success_test"
    /\ IF url_of[c] \in DOMAIN circuit_open_until
       THEN /\ ConnGoto(c, "success_del")
            /\ UNCHANGED loaded
       ELSE ConnEnd(c, "connected", 0)
    /\ UNCHANGED <<failure_count, circuit_open_until, streak, recorded, connects>>
    /\ UNCHANGED <<wall, NotBreaker>>

\* _record_success, line 109: `del self._circuit_open_until[self.url]`; when
\* the entry is gone the KeyError is caught by `except Exception` of connect
\* (line 122), which goes on to _record_failure
ConnSuccessDel(c) ==
    /\ stage[c] = "success_del"
    /\ IF url_of[c] \in DOMAIN circuit_open_until
       THEN /\ circuit_open_until' = DictDel(circuit_open_until, url_of[c])
            /\ ConnEnd(c, "connected", 0)
       ELSE /\ loaded' = [loaded EXCEPT ![c].error = "key_error"]
            /\ ConnGoto(c, "record_load")
            /\ UNCHANGED circuit_open_until
    /\ UNCHANGED <<failure_count, streak, recorded, connects>>
    /\ UNCHANGED <<wall, NotBreaker>>

\* connect, lines 119-122: acquiring a connection raises `error`
ConnFailed(c, error) ==
    /\ stage[c] = "acquire"
    /\ loaded' = [loaded EXCEPT ![c].error = error]
    /\ ConnGoto(c, "record_load")
    /\ UNCHANGED <<failure_count, circuit_open_until, streak, recorded, connects>>
    /\ UNCHANGED <<wall, NotBreaker>>

\* _record_failure, line 100, right-hand side:
\* `self._failure_count.get(self.url, 0) + 1`
ConnRecordLoad(c) ==
    /\ stage[c] = "record_load"
    /\ loaded' = [loaded EXCEPT ![c].count = DictGet(failure_count, url_of[c], 0) + 1]
    /\ ConnGoto(c, "record_store")
    /\ UNCHANGED <<failure_count, circuit_open_until, streak, recorded, connects>>
    /\ UNCHANGED <<wall, NotBreaker>>

\* _record_failure, line 100: the store
ConnRecordStore(c) ==
    /\ stage[c] = "record_store"
    /\ failure_count' = DictSet(failure_count, url_of[c], loaded[c].count)
    /\ recorded' = [recorded EXCEPT ![url_of[c]] = @ + 1]
    /\ streak' = [streak EXCEPT ![url_of[c]] = StreakAfter(@, loaded[c].error)]
    /\ ConnGoto(c, "record_test")
    /\ UNCHANGED <<circuit_open_until, loaded, connects>>
    /\ UNCHANGED <<wall, NotBreaker>>

\* _record_failure, line 101: the count is read again and compared with the
\* threshold; below it, connect() raises the error again (line 125)
ConnRecordTest(c) ==
    /\ stage[c] = "record_test"
    /\ IF Opens(failure_count[url_of[c]])
       THEN /\ ConnGoto(c, "open_clock")
            /\ UNCHANGED loaded
       ELSE ConnEnd(c, loaded[c].error, 0)
    /\ UNCHANGED <<failure_count, circuit_open_until, streak, recorded, connects>>
    /\ UNCHANGED <<wall, NotBreaker>>

\* _record_failure, line 102, right-hand side: `time.time() + self._CIRCUIT_TIMEOUT`
ConnOpenClock(c) ==
    /\ stage[c] = "open_clock"
    /\ loaded' = [loaded EXCEPT ![c].until = wall + CIRCUIT_TIMEOUT]
    /\ streak' = [streak EXCEPT ![url_of[c]].fifth_at =
                      IF streak[url_of[c]].n = FAILURE_THRESHOLD THEN wall ELSE @]
    /\ ConnGoto(c, "open_store")
    /\ UNCHANGED <<failure_count, circuit_open_until, recorded, connects>>
    /\ UNCHANGED <<wall, NotBreaker>>

\* _record_failure, line 102: the store; connect() raises the error again
ConnOpenStore(c) ==
    /\ stage[c] = "open_store"
    /\ circuit_open_until' = DictSet(circuit_open_until, url_of[c], loaded[c].until)
    /\ ConnEnd(c, loaded[c].error, 0)
    /\ UNCHANGED <<failure_count, streak, recorded, connects>>
    /\ UNCHANGED <<wall, NotBreaker>>

\* Time passes on the wall clock.
WallElapse ==
    /\ wall < MaxWall
    /\ wall' = wall + 1
    /\ UNCHANGED breakerVars
    /\ UNCHANGED NotBreaker

\* A step of an attempt in progress of connector c, but for a failure to
\* acquire a connection and for line 109.
ConnStep(c) ==
    \/ ConnCheckClock(c)
    \/ ConnCheckRead(c)
    \/ ConnRaiseRead(c)
    \/ ConnRaise(c)
    \/ ConnCheckDel(c)
    \/ ConnCheckReset(c)
    \/ ConnConnected(c)
    \/ ConnSuccessTest(c)
    \/ ConnRecordLoad(c)
    \/ ConnRecordStore(c)
    \/ ConnRecordTest(c)
    \/ ConnOpenClock(c)
    \/ ConnOpenStore(c)

\* No connect() call of another connector is under way.
Alone(c) ==
    \A d \in Connectors \ {c} : stage[d] = "idle" /\ attempt_no[d] = 0

\* No connector has been used yet.
BreakerInit ==
    /\ mono = 0
    /\ wall = 0
    /\ LimiterIdle
    /\ BucketIdle
    /\ BreakerIdle
    /\ FbIdle

\* connect() calls made one after another.  Line 109 is not reached then: a
\* check that passes leaves no entry of the url in _circuit_open_until.
BreakerNext ==
    \/ connects < MaxConnects /\ \E c \in Connectors : Alone(c) /\ ConnCheckTest(c)
    \/ \E c \in Connectors : ConnStep(c)
    \/ \E c \in Connectors, error \in Acquisitions \ {"connected"} : ConnFailed(c, error)
    \/ WallElapse

SpecBreaker == BreakerInit /\ [][BreakerNext]_vars

\* The connectors of one url: they share one breaker entry.
RaceConnectors == {c \in Connectors : url_of[c] = "db1"}

\* connect() calls of several connectors of one url, made at the same time,
\* within the cool-down of the circuit or just after it; a connection that
\* is not acquired raises psycopg.OperationalError.
RaceNext ==
    \/ connects < MaxRaceConnects /\ \E c \in RaceConnectors : ConnCheckTest(c)
    \/ \E c \in RaceConnectors : ConnStep(c)
    \/ \E c \in RaceConnectors : ConnFailed(c, "operational_error")
    \/ \E c \in RaceConnectors : ConnSuccessDel(c)
    \/ wall < CIRCUIT_TIMEOUT /\ WallElapse

SpecRace == BreakerInit /\ [][RaceNext]_vars

----------------------------------------------------------------------------
(* LLMClient.complete and LLMClient.complete_with_fallback                 *)
(* (src/dbadmin/ai/llm.py): one call of complete_with_fallback, from the   *)
(* call to its return or raise, run by thread t1 against the process-wide  *)
(* limiter.                                                                *)

\* PROVIDERS: the entries read by the fallback ("" stands for None)
PROVIDERS ==
    [openrouter |-> [env_key |-> "OPENROUTER_API_KEY",
                     default_model |-> "meta-llama/llama-3.1-8b-instruct:free"],
     groq |-> [env_key |-> "GROQ_API_KEY", default_model |-> "llama-3.1-70b-versatile"],
     ollama |-> [env_key |-> "", default_model |-> "llama3.1"],
     openai |-> [env_key |-> "OPENAI_API_KEY", default_model |-> "gpt-4o"],
     anthropic |-> [env_key |-> "ANTHROPIC_API_KEY",
                    default_model |-> "claude-3-5-sonnet-20241022"],
     together |-> [env_key |-> "TOGETHER_API_KEY",
                   default_model |-> "meta-llama/Meta-Llama-3.1-70B-Instruct-Turbo"],
     deepseek |-> [env_key |-> "DEEPSEEK_API_KEY", default_model |-> "deepseek-chat"]]

\* FALLBACK_CHAINS
FALLBACK_CHAINS ==
    [openai |-> << <<"groq", "llama-3.1-70b-versatile">>,
                   <<"openrouter", "meta-llama/llama-3.1-70b-instruct">> >>,
     groq |-> << <<"openrouter", "meta-llama/llama-3.1-70b-instruct">>,
                 <<"openai", "gpt-4o-mini">> >>,
     anthropic |-> << <<"openai", "gpt-4o">>, <<"groq", "llama-3.1-70b-versatile">> >>,
     openrouter |-> << <<"groq", "llama-3.1-70b-versatile">>, <<"openai", "gpt-4o-mini">> >>,
     together |-> << <<"groq", "llama-3.1-70b-versatile">>,
                     <<"openrouter", "meta-llama/llama-3.1-70b-instruct">> >>,
     deepseek |-> << <<"groq", "llama-3.1-70b-versatile">>,
                     <<"openrouter", "meta-llama/llama-3.1-70b-instruct">> >>,
     ollama |-> << <<"groq", "llama-3.1-8b-instant">>,
                   <<"openrouter", "meta-llama/llama-3.1-8b-instruct:free">> >>]

\* The API-key variables the environment may hold.
EnvKeys == {"GROQ_API_KEY", "OPENROUTER_API_KEY", "OPENAI_API_KEY"}

\* stop_after_attempt(3) of the retry decorator of complete
LLM_STOP_AFTER_ATTEMPT == 3

\* What self._client.chat.completions.create does: it returns a response or
\* raises APIConnectionError, another APIError, or RateLimitError.
UpstreamFailures == {"APIConnectionError", "APIError", "RateLimitError"}

\* A retry decorator that retries whatever the error is.
RetriedAlways(error) == TRUE

\* retry_if_exception_type((APIConnectionError,)) of the retry decorator of
\* complete: the errors after which complete is run again
Retried(error) == error = "APIConnectionError"

\* FALLBACK_CHAINS.get(self.provider, [])
Chain(primary) == DictGet(FALLBACK_CHAINS, primary, <<>>)

\* The provider and model of the client used at position idx: the primary
\* at 0 (self.provider, self.model), the idx-th alternate otherwise.
ClientAt(primary, idx) ==
    IF idx = 0
    THEN <<primary, IF primary \in DOMAIN PROVIDERS
                    THEN PROVIDERS[primary].default_model ELSE "default">>
    ELSE Chain(primary)[idx]

\* complete_with_fallback, lines 275-279: the alternate is skipped when its
\* API-key variable is named and not set.
Skipped(provider, environ) ==
    LET env_key == IF provider \in DOMAIN PROVIDERS THEN PROVIDERS[provider].env_key ELSE ""
    IN env_key # "" /\ env_key \notin environ

\* The loop without its test of the credentials: every alternate is tried.
NextAvailableNoSkip(chain, idx, environ) == idx + 1

\* The position of the next alternate the loop tries after position idx, or
\* Len(chain) + 1 when the loop ends.
RECURSIVE NextAvailable(_, _, _)
NextAvailable(chain, idx, environ) ==
    IF idx + 1 > Len(chain) THEN Len(chain) + 1
    ELSE IF Skipped(chain[idx + 1][1], environ) THEN NextAvailable(chain, idx + 1, environ)
    ELSE idx + 1

\* complete_with_fallback, the two except clauses and the end of the loop:
\* the call after the client at f.idx failed with error `err`.
Failed(f, err, environ) ==
    LET client == ClientAt(f.primary, f.idx)
        errs == Append(f.errors, [provider |-> client[1], model |-> client[2],
                                  error |-> err])
        chain == Chain(f.primary)
        j == NextAvailable(chain, f.idx, environ)
    IN IF j <= Len(chain)
       THEN [f EXCEPT !.state = "admit", !.idx = j, !.attempt = 1, !.errors = errs]
       ELSE [f EXCEPT !.state = "raised", !.errors = errs,
                      !.result = [NoResult EXCEPT !.kind = "AllProvidersFailedError",
                                                  !.errors = errs]]

\* get_rate_limiter, line 238, called by complete, line 216, in thread t:
\* `if _global_limiter is None`.  The thread keeps the arguments of the
\* check_rate_limit call that follows.
GetRateLimiter(t, provider, estimated_tokens) ==
    /\ pc[t] = "idle"
    /\ pc' = [pc EXCEPT ![t] = IF global_limiter = 0 THEN "global_create"
                               ELSE "global_return"]
    /\ cur' = [cur EXCEPT ![t] = Args("check_rate_limit", 0, provider,
                                      estimated_tokens, 0)]
    /\ UNCHANGED <<heapVars, start, observerVars>>

\* complete, lines 211-216, in thread t, outside complete_with_fallback
GlobalTest(t, provider, estimated_tokens) ==
    /\ GetRateLimiter(t, provider, estimated_tokens)
    /\ UNCHANGED <<mono, Elsewhere>>

\* get_rate_limiter, line 239: `_global_limiter = RateLimiter()`
GlobalCreate(t) ==
    /\ pc[t] = "global_create"
    /\ limiters' = Append(limiters, NewLimiter(DefaultConfig))
    /\ global_limiter' = Len(limiters) + 1
    /\ Goto(t, "global_return")
    /\ UNCHANGED cur
    /\ UNCHANGED <<mono, Elsewhere>>

\* configure_rate_limiter(config), lines 252-254, called by any thread of
\* the process: `_global_limiter = RateLimiter(config)`
ConfigureRateLimiter(config) ==
    /\ configures < MaxConfigures
    /\ limiters' = Append(limiters, NewLimiter(config))
    /\ global_limiter' = Len(limiters) + 1
    /\ configures' = configures + 1
    /\ UNCHANGED <<threadVars, last, admitted, admitted_tokens, calls, held>>
    /\ UNCHANGED <<mono, Elsewhere>>

\* get_rate_limiter, line 240, and complete, line 216:
\* `rate_limiter = get_rate_limiter()` receives what the global holds now
GlobalReturn(t) ==
    /\ pc[t] = "global_return"
    /\ cur' = [cur EXCEPT ![t].limiter = global_limiter]
    /\ Goto(t, "get_buckets")
    /\ UNCHANGED heapVars
    /\ UNCHANGED <<mono, Elsewhere>>

\* A step of complete, lines 216-217, in thread t, up to the first
\* statements of check_rate_limit.
GlobalStep(t) ==
    \/ GlobalCreate(t)
    \/ GlobalReturn(t)
    \/ ThreadGetBuckets(t)

NotFb == <<wall, bucketVars, breakerVars>>

\* A call of complete_with_fallback on a client of provider `primary` begins.
FbCall(primary, estimated_tokens) ==
    /\ fb.state = "idle"
    /\ fb' = [NoFb EXCEPT !.state = "admit", !.primary = primary,
                          !.estimated_tokens = estimated_tokens, !.attempt = 1]
    /\ events' = <<>>
    /\ UNCHANGED <<mono, env, limiterVars, NotFb>>

\* complete, lines 211-216, in the attempt in progress: the estimate is
\* made and get_rate_limiter is called.
FbAdmit ==
    /\ fb.state = "admit"
    /\ GetRateLimiter("t1", ClientAt(fb.primary, fb.idx)[1], fb.estimated_tokens)
    /\ fb' = [fb EXCEPT !.state = "admitting"]
    /\ UNCHANGED <<mono, env, events, NotFb>>

\* complete, line 217: check_rate_limit has returned or raised.
\* RateLimitExceeded is not retried by the decorator and is caught by
\* complete_with_fallback.
FbAdmitted ==
    /\ fb.state = "admitting"
    /\ pc["t1"] = "idle"
    /\ events' = Append(events, [ev |-> "check_rate_limit", provider |-> last.provider,
                                 outcome |-> last.outcome])
    /\ fb' = IF last.outcome = "returned"
             THEN [fb EXCEPT !.state = "upstream", !.limiter = last.limiter]
             ELSE Failed(fb, "RateLimitExceeded", env)
    /\ UNCHANGED <<mono, env, limiterVars, NotFb>>

\* complete, lines 219-230, in the attempt in progress: the upstream call
\* returns, and record_actual_tokens is called on the limiter that made the
\* check.
FbUpstreamReturns(actual_tokens) ==
    /\ fb.state = "upstream"
    /\ pc["t1"] = "idle"
    /\ Enter("t1", Args("record_actual_tokens", fb.limiter,
                        ClientAt(fb.primary, fb.idx)[1], fb.estimated_tokens,
                        actual_tokens))
    /\ events' = Append(events, [ev |-> "create",
                                 provider |-> ClientAt(fb.primary, fb.idx)[1],
                                 outcome |-> "success"])
    /\ fb' = [fb EXCEPT !.state = "recording", !.actual_tokens = actual_tokens]
    /\ UNCHANGED <<mono, env, NotFb>>

\* complete, lines 230-237: record_actual_tokens has returned, and the
\* response is returned; complete_with_fallback marks the response of an
\* alternate (line 285) and returns it.
FbRecorded ==
    /\ fb.state = "recording"
    /\ pc["t1"] = "idle"
    /\ LET client == ClientAt(fb.primary, fb.idx)
       IN /\ events' = Append(events, [ev |-> "record_actual_tokens",
                                       provider |-> client[1], outcome |-> "returned"])
          /\ fb' = [fb EXCEPT !.state = "returned",
                              !.result = [kind |-> "response", provider |-> client[1],
                                          model |-> client[2],
                                          used_fallback |-> fb.idx > 0,
                                          tokens_used |-> fb.actual_tokens,
                                          errors |-> <<>>]]
    /\ UNCHANGED <<mono, env, limiterVars, NotFb>>

\* Mutant of FbUpstreamRaises: the decorator has no stop condition, complete
\* is run again after every connectivity error.
FbUpstreamRaisesNoStop(error) ==
    /\ fb.state = "upstream"
    /\ events' = Append(events, [ev |-> "create",
                                 provider |-> ClientAt(fb.primary, fb.idx)[1],
                                 outcome |-> error])
    /\ fb' = IF Retried(error)
             THEN [fb EXCEPT !.state = "admit", !.attempt = @ + 1]
             ELSE Failed(fb, error, env)
    /\ UNCHANGED <<mono, env, limiterVars, NotFb>>

\* Mutant of FbUpstreamRaises: a retry goes straight to the upstream call,
\* only the first attempt asks the limiter.
FbUpstreamRaisesNoRecheck(error) ==
    /\ fb.state = "upstream"
    /\ events' = Append(events, [ev |-> "create",
                                 provider |-> ClientAt(fb.primary, fb.idx)[1],
                                 outcome |-> error])
    /\ fb' = IF Retried(error)
             THEN IF fb.attempt < LLM_STOP_AFTER_ATTEMPT
                  THEN [fb EXCEPT !.state = "upstream", !.attempt = @ + 1]
                  ELSE [fb EXCEPT !.state = "raised",
                                  !.result = [NoResult EXCEPT !.kind = "RetryError"]]
             ELSE Failed(fb, error, env)
    /\ UNCHANGED <<mono, env, limiterVars, NotFb>>

\* Mutant of FbUpstreamRaises: the request unit of the failed attempt is
\* given back to the request bucket.
FbUpstreamRaisesRefund(error) ==
    /\ fb.state = "upstream"
    /\ events' = Append(events, [ev |-> "create",
                                 provider |-> ClientAt(fb.primary, fb.idx)[1],
                                 outcome |-> error])
    /\ fb' = IF Retried(error)
             THEN IF fb.attempt < LLM_STOP_AFTER_ATTEMPT
                  THEN [fb EXCEPT !.state = "admit", !.attempt = @ + 1]
                  ELSE [fb EXCEPT !.state = "raised",
                                  !.result = [NoResult EXCEPT !.kind = "RetryError"]]
             ELSE Failed(fb, error, env)
    /\ limiters' = [limiters EXCEPT
                       ![fb.limiter].request_buckets[ClientAt(fb.primary, fb.idx)[1]].tokens =
                           Refunded(@)]
    /\ UNCHANGED <<global_limiter, threadVars, observerVars>>
    /\ UNCHANGED <<mono, env, NotFb>>

\* complete, lines 219-224, in the attempt in progress: the upstream call
\* raises.  The decorator runs complete again after APIConnectionError,
\* up to LLM_STOP_AFTER_ATTEMPT attempts, and then raises tenacity.RetryError
\* (it has no reraise=True); it lets any other error through.
FbUpstreamRaises(error) ==
    /\ fb.state = "upstream"
    /\ events' = Append(events, [ev |-> "create",
                                 provider |-> ClientAt(fb.primary, fb.idx)[1],
                                 outcome |-> error])
    /\ fb' = IF Retried(error)
             THEN IF fb.attempt < LLM_STOP_AFTER_ATTEMPT
                  THEN [fb EXCEPT !.state = "admit", !.attempt = @ + 1]
                  ELSE [fb EXCEPT !.state = "raised",
                                  !.result = [NoResult EXCEPT !.kind = "RetryError"]]
             ELSE Failed(fb, error, env)
    /\ UNCHANGED <<mono, env, limiterVars, NotFb>>

\* The process-wide limiter before its first use: not built yet
\* (_global_limiter is None), or built by configure_rate_limiter(config)
\* with an enabled configuration.
GlobalIdle ==
    /\ limiters \in {<<>>, <<NewLimiter(CallerConfig(TRUE))>>}
    /\ global_limiter = Len(limiters)
    /\ ThreadsIdle

FallbackInit ==
    /\ mono = 0
    /\ wall = 0
    /\ GlobalIdle
    /\ BucketIdle
    /\ BreakerIdle
    /\ fb = NoFb
    /\ env \in SUBSET EnvKeys
    /\ events = <<>>

\* One call of complete_with_fallback.  Time passes at any statement, up to
\* MaxFallbackMono ticks.
FallbackNext ==
    \/ \E p \in Primaries, e \in SmallEstimates : FbCall(p, e)
    \/ FbAdmit
    \/ GlobalStep("t1")
    \/ ThreadGetBucketsToken("t1")
    \/ CheckStep("t1")
    \/ FbAdmitted
    \/ \E a \in ActualTokens : FbUpstreamReturns(a)
    \/ ThreadAdjust("t1")
    \/ FbRecorded
    \/ \E e \in UpstreamFailures : FbUpstreamRaises(e)
    \/ mono < MaxFallbackMono /\ Elapse

SpecFallback == FallbackInit /\ [][FallbackNext]_vars

\* The thread that runs complete_with_fallback keeps running: the limiter
\* answers, and an upstream call returns or raises.
SpecFallbackFair ==
    /\ SpecFallback
    /\ WF_vars(FbAdmit \/ GlobalStep("t1") \/ ThreadGetBucketsToken("t1")
               \/ CheckStep("t1") \/ FbAdmitted \/ ThreadAdjust("t1") \/ FbRecorded)
    /\ WF_vars(\/ \E a \in ActualTokens : FbUpstreamReturns(a)
               \/ \E e \in UpstreamFailures : FbUpstreamRaises(e))

----------------------------------------------------------------------------
(* The process-wide limiter: threads whose complete() reaches lines 216-217 *)
(* at the same time.  get_rate_limiter tests, builds and stores the global  *)
(* with no lock, so each of its accesses is a step, and                     *)
(* configure_rate_limiter can replace the global at any of them.            *)

GlobalInit ==
    /\ mono = 0
    /\ wall = 0
    /\ GlobalIdle
    /\ BucketIdle
    /\ BreakerIdle
    /\ FbIdle

GlobalNext ==
    \/ /\ Begun < MaxCalls
       /\ \E t \in Threads, e \in SmallEstimates : GlobalTest(t, "openai", e)
    \/ \E t \in Threads : GlobalStep(t)
    \/ \E t \in Threads : ThreadGetBucketsToken(t)
    \/ \E t \in Threads : CheckStep(t)
    \/ \E config \in Configs : ConfigureRateLimiter(config)

SpecGlobal == GlobalInit /\ [][GlobalNext]_vars

----------------------------------------------------------------------------
(* What a caller can observe of the RateLimiter it built (the first one) *)

enabled == limiters[1].config.enabled
request_buckets == limiters[1].request_buckets
token_buckets == limiters[1].token_buckets
usage_stats == limiters[1].usage_stats

\* A call of the RateLimiter API ends in this step.
ApiCall == calls' = calls + 1

\* The limiters and the time when the call of thread t began, taken in the
\* state before the step that ends it.
BeforeCall(t) == IF pc[t] = "idle" THEN Started ELSE start[t]

\* The request capacity of a provider, as configured.
RequestCapacity(p) == GetLimits(limiters[1].config, p)[1]

\* The token capacity of a provider, as configured.
TokenCapacity(p) == GetLimits(limiters[1].config, p)[2]

\* Tokens of the bucket of p in the map m once refilled to time t; a provider
\* not used yet would get a full bucket of capacity c.
TokensAt(m, p, t, c) ==
    IF p \in DOMAIN m
    THEN Min(Fx(m[p].capacity), m[p].tokens + (t - m[p].last_refill) * m[p].refill_rate)
    ELSE Fx(c)

\* Tokens stored in the bucket of p in the map m; a provider not used yet
\* would get a full bucket of capacity c.
TokensStored(m, p, c) == IF p \in DOMAIN m THEN m[p].tokens ELSE Fx(c)

\* What get_usage_stats(p) returns when the statistics are s.
StatsOf(s, p) == IF p \in DOMAIN s THEN s[p] ELSE [requests |-> 0, tokens |-> 0]

----------------------------------------------------------------------------
\* C1.  In every reachable state, the tokens of every request bucket and of
\* every token bucket are at most the capacity of that bucket.  The code
\* breaks this: record_actual_tokens credits estimated - actual to the token
\* bucket without capping it at the capacity.
C1_TokensAtMostCapacity ==
    /\ \A p \in DOMAIN request_buckets :
           request_buckets[p].tokens <= Fx(request_buckets[p].capacity)
    /\ \A p \in DOMAIN token_buckets :
           token_buckets[p].tokens <= Fx(token_buckets[p].capacity)

----------------------------------------------------------------------------
\* C2.  The request bucket of a provider is never negative, and a token
\* bucket that was not negative becomes negative only in the step of
\* record_actual_tokens that adjusts it, in a call for that provider with
\* actual_tokens > estimated_tokens; consume and the refund never make
\* tokens negative.
C2_NegativeOnlyByRecord ==
    /\ [](\A p \in DOMAIN request_buckets : request_buckets[p].tokens >= 0)
    /\ [][\A p \in DOMAIN token_buckets' :
            (/\ token_buckets'[p].tokens < 0
             /\ TokensStored(token_buckets, p, TokenCapacity(p)) >= 0)
            => /\ ApiCall
               /\ last'.op = "record_actual_tokens"
               /\ last'.provider = p
               /\ last'.actual_tokens > last'.estimated_tokens]_vars

\* A check was turned away by a token bucket in debt, and its request unit
\* is back in a full request bucket.
C2_Witness ==
    /\ last.op = "check_rate_limit"
    /\ last.outcome = "token_limit"
    /\ last.provider = "openai"
    /\ token_buckets["openai"].tokens < 0
    /\ request_buckets["openai"].tokens = Fx(2)

----------------------------------------------------------------------------
\* C3.  consume(n) refills, tokens = min(capacity, tokens + elapsed * rate),
\* and then returns True with tokens decreased by exactly n when the refilled
\* tokens are >= n, and otherwise returns False with the refilled tokens left
\* as they are; a new bucket is full; on a bucket of capacity 5 with no time
\* passing consume(3) succeeds, consume(3) fails and consume(2) succeeds.
C3_ConsumeContract ==
    /\ [](hist = <<>> => bucket.tokens = Fx(bucket.capacity))
    /\ [][(Len(hist') = Len(hist) + 1 /\ hist'[Len(hist')].op = "consume")
          => LET h == hist'[Len(hist')]
                 refilled == Min(Fx(bucket.capacity),
                                 bucket.tokens + (mono - bucket.last_refill) * bucket.refill_rate)
             IN /\ h.ok = (refilled >= Fx(h.n))
                /\ bucket'.tokens = IF h.ok THEN refilled - Fx(h.n) ELSE refilled
                /\ bucket'.last_refill = mono
                /\ bucket'.capacity = bucket.capacity
                /\ bucket'.refill_rate = bucket.refill_rate]_vars
    /\ []((/\ bucket.capacity = 5
           /\ Len(hist) >= 3
           /\ \A i \in 1..3 : hist[i].op = "consume" /\ hist[i].at = 0
           /\ <<hist[1].n, hist[2].n, hist[3].n>> = <<3, 3, 2>>)
          => <<hist[1].ok, hist[2].ok, hist[3].ok>> = <<TRUE, FALSE, TRUE>>)

\* The three calls of the example were made on a bucket of capacity 5, and
\* the bucket is empty.
C3_Witness ==
    /\ bucket.capacity = 5
    /\ Len(hist) = 3
    /\ \A i \in 1..3 : hist[i].op = "consume" /\ hist[i].at = 0
    /\ <<hist[1].n, hist[2].n, hist[3].n>> = <<3, 3, 2>>
    /\ bucket.tokens = 0

----------------------------------------------------------------------------
\* C4.  The number of check_rate_limit calls admitted for a provider of
\* request capacity N never exceeds N plus the units refilled by the time
\* elapsed, elapsed * N / 60 (in fixed point: N per tick), in every
\* interleaving of the callers.
C4_AdmittedWithinCapacity ==
    enabled =>
        \A p \in Providers :
            Fx(admitted[p]) <= Fx(RequestCapacity(p)) + mono * RequestCapacity(p)

----------------------------------------------------------------------------
\* C5.  When check_rate_limit is rejected on the token bucket, the request
\* bucket of the provider holds what it held before the call (refill apart),
\* the token bucket is not debited and the usage statistics are the same.
C5_RejectedOnTokensRefunds ==
    [][(ApiCall /\ last'.op = "check_rate_limit" /\ last'.outcome = "token_limit")
       => LET p == last'.provider
              before == BeforeCall(last'.thread).limiters[1]
          IN /\ TokensAt(request_buckets', p, mono', RequestCapacity(p))
                    = TokensAt(before.request_buckets, p, mono', RequestCapacity(p))
             /\ TokensAt(token_buckets', p, mono', TokenCapacity(p))
                    = TokensAt(before.token_buckets, p, mono', TokenCapacity(p))
             /\ StatsOf(usage_stats', p) = StatsOf(before.usage_stats, p)
             /\ admitted' = admitted]_vars

\* A check for openai was turned away by the token bucket after another had
\* been admitted, and the request bucket holds one unit less than its
\* capacity.
C5_Witness ==
    /\ last.op = "check_rate_limit"
    /\ last.outcome = "token_limit"
    /\ last.provider = "openai"
    /\ usage_stats["openai"].requests = 1
    /\ request_buckets["openai"].tokens = Fx(1)

----------------------------------------------------------------------------
\* C6.  On an enabled limiter used by one caller, between the calls the
\* usage statistics of every provider are the number of check_rate_limit
\* calls for it that returned and the sum of their estimated_tokens, and
\* that is what get_usage_stats(provider) returns.
C6_StatsCountAdmitted ==
    enabled =>
        /\ pc["t1"] = "idle" =>
               \A p \in Providers :
                   /\ StatsOf(usage_stats, p).requests = admitted[p]
                   /\ StatsOf(usage_stats, p).tokens = admitted_tokens[p]
        /\ (last.op = "get_usage_stats" /\ last.provider # "") =>
               held.given[last.provider] =
                   [requests |-> admitted[last.provider],
                    tokens |-> admitted_tokens[last.provider]]

\* A check for openai was admitted, get_usage_stats("openai") returned one
\* request and its estimate, and a second check was turned away on tokens:
\* the counters are still those of the one admitted call.
C6_Witness ==
    /\ enabled
    /\ calls = 3
    /\ held.provider = "openai"
    /\ held.given["openai"] = [requests |-> 1, tokens |-> 3]
    /\ admitted["openai"] = 1
    /\ admitted_tokens["openai"] = 3
    /\ usage_stats["openai"] = [requests |-> 1, tokens |-> 3]
    /\ last.op = "check_rate_limit"
    /\ last.provider = "openai"
    /\ last.outcome = "token_limit"

----------------------------------------------------------------------------
\* C7, as first stated.  On an enabled limiter record_actual_tokens changes
\* the token bucket of the provider by exactly estimated - actual and
\* changes nothing else.
C7_RecordChangesOnlyTokenBucket ==
    [][(ApiCall /\ last'.op = "record_actual_tokens" /\ enabled)
       => LET p == last'.provider
              before == BeforeCall(last'.thread).limiters[1]
          IN /\ p \in DOMAIN token_buckets'
             /\ token_buckets'[p].tokens
                    = TokensStored(before.token_buckets, p, TokenCapacity(p))
                      + Fx(last'.estimated_tokens - last'.actual_tokens)
             /\ request_buckets' = before.request_buckets
             /\ usage_stats' = before.usage_stats]_vars

\* C7, amended.  On an enabled limiter record_actual_tokens changes the
\* tokens of the token bucket of the provider by exactly estimated - actual
\* (a new bucket counting as full) and changes nothing else, except that for
\* a provider that has no buckets yet it first creates the full request and
\* token buckets and the zeroed statistics entry; check_rate_limit(id, 500)
\* then record_actual_tokens(id, 200, 500) on a 1000-unit token bucket
\* leaves a remaining token capacity of at least 800, above 400.
C7_RecordAdjustsByDifference ==
    /\ [][(ApiCall /\ last'.op = "record_actual_tokens" /\ enabled)
          => LET p == last'.provider
                 began == BeforeCall(last'.thread)
                 before == began.limiters[1]
                 fresh == p \notin DOMAIN before.request_buckets
             IN /\ p \in DOMAIN token_buckets'
                /\ token_buckets'[p].tokens
                       = TokensStored(before.token_buckets, p, TokenCapacity(p))
                         + Fx(last'.estimated_tokens - last'.actual_tokens)
                /\ DOMAIN request_buckets' = DOMAIN before.request_buckets \cup {p}
                /\ DOMAIN token_buckets' = DOMAIN before.token_buckets \cup {p}
                /\ DOMAIN usage_stats' = DOMAIN before.usage_stats \cup {p}
                /\ \A q \in DOMAIN before.request_buckets :
                       /\ request_buckets'[q] = before.request_buckets[q]
                       /\ usage_stats'[q] = before.usage_stats[q]
                       /\ q # p => token_buckets'[q] = before.token_buckets[q]
                /\ ~fresh =>
                       token_buckets'[p] = [before.token_buckets[p] EXCEPT
                                               !.tokens = token_buckets'[p].tokens]
                /\ fresh =>
                       /\ request_buckets'[p].tokens = Fx(RequestCapacity(p))
                       /\ request_buckets'[p].capacity = RequestCapacity(p)
                       /\ request_buckets'[p].last_refill \in began.mono..mono
                       /\ token_buckets'[p].capacity = TokenCapacity(p)
                       /\ token_buckets'[p].last_refill \in began.mono..mono
                       /\ usage_stats'[p] = [requests |-> 0, tokens |-> 0]
                /\ admitted' = admitted /\ admitted_tokens' = admitted_tokens]_vars
    /\ []((/\ enabled
           /\ calls = 2
           /\ pc["t1"] = "idle"
           /\ last.op = "record_actual_tokens"
           /\ last.provider = "test_provider"
           /\ last.actual_tokens = 200 /\ last.estimated_tokens = 500
           /\ admitted["test_provider"] = 1
           /\ admitted_tokens["test_provider"] = 500
           /\ token_buckets["test_provider"].capacity = 1000)
          => /\ Remaining(token_buckets["test_provider"]) >= Fx(800)
             /\ Remaining(token_buckets["test_provider"]) > Fx(400))

\* check_rate_limit(test_provider, 500) was admitted, then
\* record_actual_tokens(test_provider, 200, 500) gave 300 tokens back.
C7_Witness ==
    /\ enabled
    /\ calls = 2
    /\ pc["t1"] = "idle"
    /\ last.op = "record_actual_tokens"
    /\ last.provider = "test_provider"
    /\ last.actual_tokens = 200 /\ last.estimated_tokens = 500
    /\ admitted["test_provider"] = 1
    /\ admitted_tokens["test_provider"] = 500
    /\ token_buckets["test_provider"].capacity = 1000
    /\ token_buckets["test_provider"].tokens = Fx(800)

----------------------------------------------------------------------------
\* C8.  With enabled = false every check_rate_limit call returns, whatever
\* the provider, the estimate and the number of calls made before, and no
\* call of check_rate_limit or record_actual_tokens creates or changes a
\* bucket or a statistics entry.
C8_DisabledBypass ==
    [][(ApiCall /\ last'.op \in {"check_rate_limit", "record_actual_tokens"} /\ ~enabled)
       => /\ last'.outcome = "returned"
          /\ limiters' = BeforeCall(last'.thread).limiters
          /\ limiters' = limiters]_vars

\* Every call the budget allows was a check_rate_limit with a high estimate
\* on a disabled limiter, all returned, and the three maps are empty.
C8_Witness ==
    /\ ~enabled
    /\ calls = MaxCalls
    /\ admitted["openai"] = MaxCalls
    /\ admitted_tokens["openai"] = 120000 * MaxCalls
    /\ last.op = "check_rate_limit"
    /\ last.outcome = "returned"
    /\ request_buckets = <<>>
    /\ token_buckets = <<>>
    /\ usage_stats = <<>>

----------------------------------------------------------------------------
\* C9.  A call for one provider leaves the request bucket, the token bucket
\* and the usage statistics of every other provider as they were when the
\* call began, present or absent.
C9_PerProviderIsolation ==
    [][ApiCall =>
        LET before == BeforeCall(last'.thread).limiters[1]
        IN \A q \in Providers \ {last'.provider} :
               /\ (q \in DOMAIN request_buckets') = (q \in DOMAIN before.request_buckets)
               /\ (q \in DOMAIN token_buckets') = (q \in DOMAIN before.token_buckets)
               /\ (q \in DOMAIN usage_stats') = (q \in DOMAIN before.usage_stats)
               /\ q \in DOMAIN before.request_buckets =>
                      /\ request_buckets'[q] = before.request_buckets[q]
                      /\ token_buckets'[q] = before.token_buckets[q]
                      /\ usage_stats'[q] = before.usage_stats[q]]_vars

\* openai was put in debt by record_actual_tokens after test_provider had
\* been used once, and the entries of test_provider are those of one
\* admitted call.
C9_Witness ==
    /\ enabled
    /\ pc["t1"] = "idle"
    /\ last.provider = "openai"
    /\ last.op = "record_actual_tokens"
    /\ token_buckets["openai"].tokens < 0
    /\ "test_provider" \in DOMAIN request_buckets
    /\ usage_stats["test_provider"].requests = 1
    /\ request_buckets["test_provider"].tokens = 0

----------------------------------------------------------------------------
\* C19.  get_usage_stats and get_remaining_capacity only read: a call of
\* either creates no bucket and no statistics entry and changes no bucket
\* and no counter, and what get_usage_stats returned reads the same after
\* any later call of the limiter.
C19_QueriesAreSnapshots ==
    [][/\ (ApiCall /\ last'.op \in {"get_usage_stats", "get_remaining_capacity"})
           => limiters' = BeforeCall(last'.thread).limiters
       /\ (ApiCall /\ last'.op \in {"check_rate_limit", "record_actual_tokens"})
           => Seen(held', usage_stats') = held.given]_vars

----------------------------------------------------------------------------
\* C21.  Every write to a bucket is made under the lock of that bucket: from
\* the moment a thread has read the tokens it is about to write back until
\* it has written them, no other thread changes that bucket, so the write
\* loses no update.
C21_BucketWritesUnderLock ==
    [][\A t \in Threads :
          (pc[t] = "refund_store" /\ pc'[t] = "refund_store")
              => request_buckets'[cur[t].provider] = request_buckets[cur[t].provider]]_vars

----------------------------------------------------------------------------
(* What a caller can observe of the connect() attempts *)

\* The attempt of connector c ends in this step.
AttemptEnds(c) == stage[c] # "idle" /\ stage'[c] = "idle"

\* The attempt of connector c leaves the statement `where` in this step.
Leaves(c, where) == stage[c] = where /\ stage'[c] # where

\* The end of the cool-down of the circuit the fifth failure of u opened.
CooldownEnd(u) == streak[u].fifth_at + CIRCUIT_TIMEOUT

----------------------------------------------------------------------------
\* C10.  Once 5 failures have been recorded for a url with no success in
\* between, an attempt that begins before 60 seconds have passed since the
\* fifth failure makes the circuit check; a check whose reading of the clock
\* is less than 60 seconds after the fifth failure raises the circuit-open
\* error, with a remaining time of at most 60 seconds; and the check whose
\* reading of the clock is 60 seconds or more after the fifth failure
\* passes: it deletes the open state, resets the count and goes on to the
\* acquisition.
C10_OpenForCooldown ==
    [][\A c \in Connectors :
          LET u == url_of[c]
          IN /\ (Leaves(c, "idle") /\ streak[u].n = FAILURE_THRESHOLD
                                   /\ wall < CooldownEnd(u))
                    => stage'[c] = "check_clock"
             /\ (Leaves(c, "check_read") /\ streak[u].n = FAILURE_THRESHOLD)
                    => stage'[c] = IF loaded[c].now < CooldownEnd(u)
                                   THEN "raise_read" ELSE "check_del"
             /\ Leaves(c, "raise_read") => stage'[c] = "raise_clock"
             /\ Leaves(c, "raise_clock")
                    => /\ conn_last'.outcome = "circuit_open"
                       /\ conn_last'.connector = c
                       /\ conn_last'.retry_after <= CIRCUIT_TIMEOUT
             /\ Leaves(c, "check_del") => stage'[c] = "check_reset"
             /\ Leaves(c, "check_reset")
                    => /\ stage'[c] = "acquire"
                       /\ u \notin DOMAIN circuit_open_until'
                       /\ DictGet(failure_count', u, -1) = 0]_vars

\* Five failures opened the circuit of db1, an attempt was turned away just
\* before the end of the cool-down, and the attempt after it, made once the
\* cool-down was over, has passed the check and is at the acquisition.
C10_Witness ==
    /\ streak["db1"].n = FAILURE_THRESHOLD
    /\ conn_last.url = "db1"
    /\ conn_last.outcome = "circuit_open"
    /\ conn_last.now = CooldownEnd("db1") - 1
    /\ conn_last.retry_after = 1
    /\ \E c \in Connectors : url_of[c] = "db1" /\ stage[c] = "acquire"
    /\ wall >= CooldownEnd("db1")
    /\ "db1" \notin DOMAIN circuit_open_until
    /\ failure_count["db1"] = 0

----------------------------------------------------------------------------
\* C11.  Recording a success for a url sets its failure count to zero, and a
\* connect() that ends with a success leaves the url with a zero count and
\* no open state; the circuit of a url is open only when at least
\* FAILURE_THRESHOLD failures were recorded since its last success, and the
\* count never exceeds the failures recorded since then: fewer consecutive
\* failures never open the circuit.
C11_SuccessResets ==
    /\ [](\A u \in Urls :
             /\ u \in DOMAIN circuit_open_until => streak[u].n >= FAILURE_THRESHOLD
             /\ DictGet(failure_count, u, 0) <= streak[u].n)
    /\ [][\A c \in Connectors :
             LET u == url_of[c]
             IN /\ (Leaves(c, "acquire") /\ stage'[c] = "success_test")
                       => /\ DictGet(failure_count', u, -1) = 0
                          /\ streak'[u].n = 0
                /\ (AttemptEnds(c) /\ conn_last'.outcome = "connected")
                       => /\ DictGet(failure_count', u, -1) = 0
                          /\ u \notin DOMAIN circuit_open_until'
                          /\ attempt_no'[c] = 0]_vars

\* Six failures were recorded for db1, a success came after the fourth, and
\* the circuit is closed with a count of two.
C11_Witness ==
    /\ streak["db1"].n = 2
    /\ DictGet(failure_count, "db1", 0) = 2
    /\ "db1" \notin DOMAIN circuit_open_until
    /\ streak["db1"].total = 6
    /\ conn_last.outcome = "operational_error"
    /\ \A c \in Connectors : stage[c] = "idle"

----------------------------------------------------------------------------
\* C20.  A connect() call made while the circuit of its url is open is
\* rejected at once: its first attempt makes the circuit check, acquires no
\* connection, leaves the failure count as it was, and the call ends there,
\* with no further attempt of the same call.
C20_OpenRejectsOnce ==
    [][\A c \in Connectors :
          (/\ AttemptEnds(c)
           /\ conn_last'.outcome = "circuit_open"
           /\ conn_last'.attempt = 1)
              => /\ failure_count' = failure_count
                 /\ circuit_open_until' = circuit_open_until
                 /\ streak' = streak
                 /\ attempt_no'[c] = 0]_vars

----------------------------------------------------------------------------
\* C22.  The updates of the breaker entry of a url exclude one another: when
\* no _record_failure call for the url is between its read and its store of
\* the count, the failure count is the number of _record_failure calls made
\* since the count was last set to zero, and once that number has reached
\* the threshold and the calls are over the circuit is open.
C22_FailuresAllCounted ==
    \A u \in Urls :
        (\A c \in Connectors : url_of[c] = u => stage[c] # "record_store")
            => /\ DictGet(failure_count, u, 0) = recorded[u]
               /\ (/\ recorded[u] >= FAILURE_THRESHOLD
                   /\ \A c \in Connectors : url_of[c] = u => stage[c] = "idle")
                      => u \in DOMAIN circuit_open_until

----------------------------------------------------------------------------
\* C27.  Once the cool-down of an open circuit is over, a circuit check for
\* that url raises nothing, however many callers make it at the same time:
\* a check that has found the cool-down elapsed (it is about to delete the
\* entry of circuit_open_until) deletes it, resets the count and goes on to
\* the acquisition, and never ends the call with an error.
C27_ChecksPassAfterCooldown ==
    [][\A c \in Connectors :
          /\ Leaves(c, "check_del") => stage'[c] = "check_reset"
          /\ Leaves(c, "check_reset") => stage'[c] = "acquire"]_vars

----------------------------------------------------------------------------
\* C28.  With connect() calls made one after another: for every url an
\* open-until time is recorded only while its failure count is at least
\* FAILURE_THRESHOLD, the failure count never exceeds FAILURE_THRESHOLD, no
\* attempt is at the acquisition or recording its outcome while an
\* open-until time is recorded for its url, and an attempt whose check reads
\* a time before the open-until time is turned away and records nothing.
C28_BreakerInvariant ==
    /\ [](\A u \in Urls :
             /\ u \in DOMAIN circuit_open_until
                    => DictGet(failure_count, u, 0) >= FAILURE_THRESHOLD
             /\ DictGet(failure_count, u, 0) <= FAILURE_THRESHOLD)
    /\ [](\A c \in Connectors :
             stage[c] \in {"acquire", "success_test", "record_load", "record_store",
                           "record_test", "open_clock"}
                 => url_of[c] \notin DOMAIN circuit_open_until)
    /\ [][\A c \in Connectors :
             (/\ Leaves(c, "check_read")
              /\ url_of[c] \in DOMAIN circuit_open_until
              /\ loaded[c].now < circuit_open_until[url_of[c]])
                 => stage'[c] = "raise_read"]_vars
    /\ [][\A c \in Connectors :
             (AttemptEnds(c) /\ conn_last'.outcome = "circuit_open")
                 => /\ streak' = streak
                    /\ failure_count' = failure_count
                    /\ circuit_open_until' = circuit_open_until]_vars

\* The circuit of db1 opened on its fifth failure, time has passed, and the
\* third attempt of a call was turned away before the end of the cool-down.
C28_Witness ==
    /\ "db1" \in DOMAIN circuit_open_until
    /\ failure_count["db1"] = FAILURE_THRESHOLD
    /\ streak["db1"].total = FAILURE_THRESHOLD
    /\ conn_last.url = "db1"
    /\ conn_last.outcome = "circuit_open"
    /\ conn_last.attempt = STOP_AFTER_ATTEMPT
    /\ conn_last.now = circuit_open_until["db1"] - 1
    /\ \A c \in Connectors : stage[c] = "idle"

----------------------------------------------------------------------------
(* What a caller can observe of one complete_with_fallback call *)

\* The position of a provider in the order of the call: 0 for the primary,
\* its place in the fallback chain of the primary otherwise.
PosOf(primary, provider) ==
    IF provider = primary THEN 0
    ELSE CHOOSE i \in 1..Len(Chain(primary)) : Chain(primary)[i][1] = provider

\* The upstream invocations among the events, in order.
Invocations == SelectSeq(events, LAMBDA e : e.ev = "create")

\* The providers the call has entered complete() for, in order of first use.
RECURSIVE Distinct(_)
Distinct(seq) ==
    IF seq = <<>> THEN <<>>
    ELSE LET rest == Distinct(SubSeq(seq, 1, Len(seq) - 1))
             x == seq[Len(seq)]
         IN IF \E i \in 1..Len(rest) : rest[i] = x THEN rest ELSE Append(rest, x)

Attempted == Distinct([i \in 1..Len(events) |-> events[i].provider])

\* The usage statistics of the process-wide limiter, empty while it is not
\* built.
GlobalStats == IF global_limiter = 0 THEN <<>> ELSE limiters[global_limiter].usage_stats

\* C12.  The call works through the primary and then the alternates of its
\* chain in chain order, never touching an alternate whose API key is not
\* set and passing over no other; when it returns, the response names the
\* provider whose upstream call succeeded, used_fallback tells whether that
\* is an alternate, and nothing is invoked after the success.
C12_FallbackOrder ==
    fb.state # "idle" =>
        /\ events # <<>> => events[1].provider = fb.primary
        /\ \A i, j \in 1..Len(events) :
               i < j => PosOf(fb.primary, events[i].provider)
                            <= PosOf(fb.primary, events[j].provider)
        /\ \A i \in 1..Len(events) :
               events[i].provider # fb.primary => ~Skipped(events[i].provider, env)
        /\ \A k \in 1..Len(Chain(fb.primary)) :
               (k < fb.idx /\ ~Skipped(Chain(fb.primary)[k][1], env))
                   => \E i \in 1..Len(events) :
                          events[i].provider = Chain(fb.primary)[k][1]
        /\ \A i \in 1..Len(events) :
               (events[i].ev = "create" /\ events[i].outcome = "success")
                   => /\ fb.state \in {"recording", "returned"}
                      /\ ClientAt(fb.primary, fb.idx)[1] = events[i].provider
                      /\ fb.state = "returned" => fb.result.provider = events[i].provider
                      /\ \A j \in (i + 1)..Len(events) :
                             /\ events[j].ev = "record_actual_tokens"
                             /\ events[j].provider = events[i].provider
        /\ fb.state = "returned" =>
               /\ fb.result.kind = "response"
               /\ Invocations # <<>>
               /\ Invocations[Len(Invocations)] =
                      [ev |-> "create", provider |-> fb.result.provider,
                       outcome |-> "success"]
               /\ fb.result.used_fallback = (fb.result.provider # fb.primary)
               /\ \A i \in 1..Len(fb.errors) :
                      PosOf(fb.primary, fb.errors[i].provider)
                          < PosOf(fb.primary, fb.result.provider)

\* The primary failed, the first alternate has no API key, and the second
\* alternate answered.
C12_Witness ==
    /\ fb.state = "returned"
    /\ fb.primary = "openai"
    /\ "GROQ_API_KEY" \notin env
    /\ fb.result.provider = "openrouter"
    /\ fb.result.used_fallback
    /\ Len(fb.errors) = 1

\* The error the call recorded for a provider is how its last step ended.
LastOutcome(provider) ==
    LET of == SelectSeq(events, LAMBDA e : e.provider = provider)
        e == of[Len(of)]
    IN IF e.ev = "check_rate_limit" THEN "RateLimitExceeded" ELSE e.outcome

\* C13.  A call in which no provider succeeded ends with
\* AllProvidersFailedError, and the history that error carries has one record
\* per provider attempted, in the order of the attempts, each naming the
\* provider and the error it failed with.
C13_HistoryOfAllAttempts ==
    fb.state = "raised" =>
        /\ fb.result.kind = "AllProvidersFailedError"
        /\ [i \in 1..Len(fb.result.errors) |-> fb.result.errors[i].provider] = Attempted
        /\ \A i \in 1..Len(fb.result.errors) :
               fb.result.errors[i].error = LastOutcome(fb.result.errors[i].provider)

\* C14.  Whatever the upstream calls and the limiter do, the call ends by
\* returning a response or by raising AllProvidersFailedError; no error of a
\* provider or of the retry library reaches the caller.
C14_OnlyAggregateErrorEscapes ==
    fb.state \in {"returned", "raised"} =>
        fb.result.kind \in {"response", "AllProvidersFailedError"}

\* The upstream calls of a provider that raised APIConnectionError.
ConnectionErrors(provider) ==
    SelectSeq(events, LAMBDA e : /\ e.ev = "create"
                                 /\ e.provider = provider
                                 /\ e.outcome = "APIConnectionError")

\* C15.  A provider whose upstream call raised APIConnectionError on every
\* attempt the retry allows is recorded as failed, and the call goes on: it
\* is at a later provider, or it ended with the aggregate failure (or with a
\* response of a later provider).
C15_ExhaustedRetriesFallThrough ==
    \A i \in 1..Len(events) :
        Len(ConnectionErrors(events[i].provider)) = LLM_STOP_AFTER_ATTEMPT
            => /\ \E k \in 1..Len(fb.errors) :
                      /\ fb.errors[k].provider = events[i].provider
                      /\ fb.errors[k].error = "APIConnectionError"
               /\ \/ fb.state \in {"admit", "admitting", "upstream", "recording"}
                        /\ ClientAt(fb.primary, fb.idx)[1] # events[i].provider
                  \/ fb.state = "returned" /\ fb.result.provider # events[i].provider
                  \/ fb.state = "raised" /\ fb.result.kind = "AllProvidersFailedError"

\* The upstream invocations of provider p, among the events.
InvocationsOf(p) == {i \in 1..Len(events) : events[i].ev = "create" /\ events[i].provider = p}

\* The steps of a provider that end its turn without a retry: the limiter
\* rejected the attempt, or the upstream call raised an error other than
\* APIConnectionError.
NotRetried(e) ==
    \/ e.ev = "check_rate_limit" /\ e.outcome # "returned"
    \/ e.ev = "create" /\ e.outcome \in {"APIError", "RateLimitError"}

\* C16, as first stated.  A provider whose attempt the limiter rejected, or
\* whose upstream call raised a permanent error or a provider rate-limit
\* error, has had its upstream invoked at most once in the call, and not at
\* all when the limiter rejected it.
C16_AtMostOneInvocation ==
    \A i \in 1..Len(events) :
        NotRetried(events[i]) =>
            /\ Cardinality(InvocationsOf(events[i].provider)) <= 1
            /\ events[i].ev = "check_rate_limit"
                   => InvocationsOf(events[i].provider) = {}

\* C16, amended.  An attempt that the limiter rejects, or whose upstream call
\* raises a permanent error or a provider rate-limit error, is the last step
\* of the call for that provider: the provider is recorded as failed with
\* that error and never asked again.  Every upstream invocation of the
\* provider before it ended in APIConnectionError: the upstream is invoked
\* once for the error that is not retried, once for each connectivity error
\* retried before it, fewer than LLM_STOP_AFTER_ATTEMPT of them, and not at
\* all when the limiter rejects the first attempt of the provider.
C16_NoRetryOfPermanentErrors ==
    \A i \in 1..Len(events) :
        NotRetried(events[i]) =>
            LET p == events[i].provider
                retried == {j \in 1..Len(events) :
                               events[j] = [ev |-> "create", provider |-> p,
                                            outcome |-> "APIConnectionError"]}
            IN /\ \A j \in (i + 1)..Len(events) : events[j].provider # p
               /\ fb.state \in {"admit", "admitting", "upstream", "recording"}
                      => ClientAt(fb.primary, fb.idx)[1] # p
               /\ \E k \in 1..Len(fb.errors) :
                      /\ fb.errors[k].provider = p
                      /\ fb.errors[k].error = LastOutcome(p)
               /\ events[i].ev = "create" =>
                      /\ i > 1
                      /\ events[i - 1] = [ev |-> "check_rate_limit", provider |-> p,
                                          outcome |-> "returned"]
                      /\ InvocationsOf(p) = retried \cup {i}
               /\ events[i].ev = "check_rate_limit" => InvocationsOf(p) = retried
               /\ Cardinality(retried) < LLM_STOP_AFTER_ATTEMPT
               /\ (events[i].ev = "check_rate_limit"
                       /\ \A j \in 1..(i - 1) : events[j].provider # p)
                      => InvocationsOf(p) = {}

\* The upstream of the primary lost the connection once, was invoked again
\* and raised a permanent error: two invocations, no third, and the first
\* alternate has been admitted.
C16_Witness ==
    /\ fb.primary = "openai"
    /\ fb.state = "upstream"
    /\ fb.idx = 1
    /\ Len(events) = 5
    /\ events[2] = [ev |-> "create", provider |-> "openai",
                    outcome |-> "APIConnectionError"]
    /\ events[4] = [ev |-> "create", provider |-> "openai", outcome |-> "APIError"]
    /\ events[5] = [ev |-> "check_rate_limit", provider |-> "groq",
                    outcome |-> "returned"]
    /\ Cardinality(InvocationsOf("openai")) = 2

\* C17.  Every upstream call of a provider comes after an admission check of
\* the limiter and an admission check of the circuit breaker for that
\* provider, and the breaker is told how the primary ended: a failure of the
\* primary is counted under its identity, a success resets that count.
C17_BothChecksPrecedeUpstream ==
    /\ \A i \in 1..Len(events) :
           events[i].ev = "create" =>
               /\ i > 1
               /\ events[i - 1] = [ev |-> "check_rate_limit",
                                   provider |-> events[i].provider,
                                   outcome |-> "returned"]
               /\ \E j \in 1..(i - 1) :
                      /\ events[j].ev = "check_circuit_breaker"
                      /\ events[j].provider = events[i].provider
    /\ (\E k \in 1..Len(fb.errors) : fb.errors[k].provider = fb.primary)
           => DictGet(failure_count, fb.primary, 0) > 0
    /\ (fb.state = "returned" /\ fb.result.provider = fb.primary)
           => /\ fb.primary \in DOMAIN failure_count
              /\ failure_count[fb.primary] = 0

----------------------------------------------------------------------------
\* C18.  When threads make their first admission check through
\* get_rate_limiter at the same time, and configure_rate_limiter has not
\* replaced the limiter meanwhile, one bucket pair exists per provider in
\* the whole process, and the admission checks of all threads are made on
\* one and the same limiter.
C18_OnePairPerIdentity ==
    configures = 0 =>
        /\ \A p \in Providers :
               Cardinality({i \in 1..Len(limiters) :
                                p \in DOMAIN limiters[i].request_buckets}) <= 1
        /\ \A t, u \in Threads :
               (cur[t].limiter # 0 /\ cur[u].limiter # 0)
                   => cur[t].limiter = cur[u].limiter

----------------------------------------------------------------------------
\* C23.  What an admitted attempt consumed is not given back when its
\* upstream call raises: the admission takes one unit from the request
\* bucket and the estimate from the token bucket of the provider, each
\* refilled to the time the check read for it, and counts
\* the attempt in its usage statistics; the step in which the upstream call
\* raises changes no bucket and no statistics, and record_actual_tokens is
\* called only straight after an upstream call that returned.
C23_FailedAttemptStaysCharged ==
    /\ [][(ApiCall /\ last'.op = "check_rate_limit" /\ last'.outcome = "returned")
             => LET p == last'.provider
                    est == last'.estimated_tokens
                    began == BeforeCall(last'.thread)
                    before == began.limiters[last'.limiter]
                    after == limiters'[last'.limiter]
                    limits == GetLimits(before.config, p)
                IN /\ after.request_buckets[p].last_refill \in began.mono..mono
                   /\ after.request_buckets[p].tokens =
                          TokensAt(before.request_buckets, p,
                                   after.request_buckets[p].last_refill, limits[1]) - Fx(1)
                   /\ after.token_buckets[p].last_refill \in began.mono..mono
                   /\ after.token_buckets[p].tokens =
                          TokensAt(before.token_buckets, p,
                                   after.token_buckets[p].last_refill, limits[2]) - Fx(est)
                   /\ after.usage_stats[p] =
                          [requests |-> StatsOf(before.usage_stats, p).requests + 1,
                           tokens |-> StatsOf(before.usage_stats, p).tokens + est]]_vars
    /\ [][(/\ fb.state = "upstream"
           /\ Len(events') = Len(events) + 1
           /\ events'[Len(events')].outcome \in UpstreamFailures)
             => /\ events'[Len(events')].ev = "create"
                /\ limiters' = limiters
                /\ global_limiter' = global_limiter
                /\ pc'["t1"] = "idle"]_vars
    /\ [](\A i \in 1..Len(events) :
              events[i].ev = "record_actual_tokens"
                  => /\ i > 1
                     /\ events[i - 1] = [ev |-> "create", provider |-> events[i].provider,
                                         outcome |-> "success"])

\* The primary was admitted with an estimate of 3 and its upstream call
\* raised a permanent error: its request bucket holds one unit less than its
\* capacity, its token bucket 3 less, and its statistics count the attempt.
C23_Witness ==
    /\ fb.primary = "openai"
    /\ Len(events) = 2
    /\ events[2] = [ev |-> "create", provider |-> "openai", outcome |-> "APIError"]
    /\ mono = 0
    /\ global_limiter = 1
    /\ limiters[1].request_buckets["openai"].tokens = Fx(OverrideRequestsPerMinute - 1)
    /\ limiters[1].token_buckets["openai"].tokens = Fx(OverrideTokensPerMinute - 3)
    /\ limiters[1].usage_stats["openai"] = [requests |-> 1, tokens |-> 3]

----------------------------------------------------------------------------
\* The admission checks of provider p that returned, among the events.
AdmittedChecks(p) ==
    {i \in 1..Len(events) : events[i] = [ev |-> "check_rate_limit", provider |-> p,
                                         outcome |-> "returned"]}

\* C24.  The limiter is asked again before every attempt of complete: every
\* upstream invocation comes straight after an admission check of its own
\* that returned, so each attempt, the first and every retry, is charged one
\* request and the estimate; what follows an upstream connectivity error is
\* an admission check of the same provider; and a check that raises
\* RateLimitExceeded is the last step for its provider, recorded as its
\* error, with no upstream invocation after it.
C24_AdmissionBeforeEveryAttempt ==
    /\ \A i \in 1..Len(events) :
           events[i].ev = "create" =>
               /\ i > 1
               /\ events[i - 1] = [ev |-> "check_rate_limit",
                                   provider |-> events[i].provider,
                                   outcome |-> "returned"]
    /\ \A i \in 1..(Len(events) - 1) :
           (events[i].ev = "create" /\ events[i].outcome = "APIConnectionError")
               => /\ events[i + 1].ev = "check_rate_limit"
                  /\ events[i + 1].provider = events[i].provider
    /\ \A i \in 1..Len(events) :
           (events[i].ev = "check_rate_limit" /\ events[i].outcome # "returned")
               => /\ \A j \in (i + 1)..Len(events) : events[j].provider # events[i].provider
                  /\ \E k \in 1..Len(fb.errors) :
                         fb.errors[k] = [provider |-> events[i].provider,
                                         model |-> fb.errors[k].model,
                                         error |-> "RateLimitExceeded"]
    /\ fb.state # "admitting" =>
           \A p \in AllProviders :
               /\ StatsOf(GlobalStats, p).requests = Cardinality(AdmittedChecks(p))
               /\ StatsOf(GlobalStats, p).tokens =
                      Cardinality(AdmittedChecks(p)) * fb.estimated_tokens

\* Two attempts on the primary were admitted and lost the connection; the
\* limiter turned the third away, no third upstream call was made, and the
\* call went on to the first alternate.
C24_Witness ==
    /\ fb.primary = "openai"
    /\ Len(events) = 5
    /\ events[2] = [ev |-> "create", provider |-> "openai", outcome |-> "APIConnectionError"]
    /\ events[4] = [ev |-> "create", provider |-> "openai", outcome |-> "APIConnectionError"]
    /\ events[5] = [ev |-> "check_rate_limit", provider |-> "openai",
                    outcome |-> "request_limit"]
    /\ StatsOf(GlobalStats, "openai").requests = 2
    /\ fb.idx = 1
    /\ fb.state = "admit"

----------------------------------------------------------------------------
\* C30.  complete_with_fallback always ends, by returning or by raising.
\* It invokes the upstream of each provider at most 3 times, hence makes at
\* most 3 * (1 + length of the chain of the primary) upstream invocations,
\* and once it has moved on from a provider it never comes back to it.
C30_FallbackTerminates ==
    /\ [](\A p \in AllProviders : Cardinality(InvocationsOf(p)) <= 3)
    /\ [](fb.state # "idle"
             => Len(Invocations) <= 3 * (1 + Len(Chain(fb.primary))))
    /\ [](\A i, j, k \in 1..Len(events) :
             (i < j /\ j < k /\ events[i].provider = events[k].provider)
                 => events[j].provider = events[i].provider)
    /\ (fb.state # "idle") ~> (fb.state \in {"returned", "raised"})

\* The call has ended after five upstream invocations: one on the primary,
\* one on the first alternate, three on the second.
C30_Witness ==
    /\ fb.primary = "groq"
    /\ fb.state = "raised"
    /\ Len(Invocations) = 5
    /\ Cardinality(InvocationsOf("openai")) = 3
    /\ Cardinality(InvocationsOf("openrouter")) = 1

----------------------------------------------------------------------------
\* C25.  time_until_available(n) refills the bucket and changes nothing
\* else; it returns 0 exactly when consume(n) at the same instant returns
\* True, and (n - tokens) / refill_rate otherwise, tokens being the refilled
\* amount, negative or not.  The retry_after_seconds of RateLimitExceeded is
\* the value time_until_available returned for 1 on the request bucket when
\* the request check failed, and for the estimate on the token bucket when
\* the token check failed, and the rejected call leaves that bucket as
\* time_until_available refilled it.
C25_TimeUntilAvailable ==
    /\ [](\A m \in {request_buckets, token_buckets} :
           \A p \in DOMAIN m, n \in BucketAmounts \cup EstimatedTokens :
               LET w == TimeUntilAvailable(m[p], n, mono)
                   refilled == TokensAt(m, p, mono, 0)
               IN /\ (w.needed = 0) = Consume(m[p], n, mono).ok
                  /\ w.needed > 0 => w.needed = Fx(n) - refilled
                  /\ w.rate = m[p].refill_rate
                  /\ w.bucket = [m[p] EXCEPT !.tokens = refilled, !.last_refill = mono])
    /\ [][(ApiCall /\ last'.op = "check_rate_limit" /\ last'.outcome = "request_limit")
             => LET p == last'.provider
                    read == cur[last'.thread].now
                    before == BeforeCall(last'.thread).limiters[1].request_buckets
                    w == TimeUntilAvailable(request_buckets[p], 1, read)
                IN /\ last'.needed = w.needed
                   /\ last'.rate = RequestCapacity(p)
                   /\ request_buckets'[p] = w.bucket
                   /\ w.bucket.tokens = TokensAt(before, p, read, RequestCapacity(p))]_vars
    /\ [][(ApiCall /\ last'.op = "check_rate_limit" /\ last'.outcome = "token_limit")
             => LET p == last'.provider
                    read == cur[last'.thread].now
                    before == BeforeCall(last'.thread).limiters[1].token_buckets
                    w == TimeUntilAvailable(token_buckets[p], last'.estimated_tokens, read)
                IN /\ last'.needed = w.needed
                   /\ last'.rate = TokenCapacity(p)
                   /\ token_buckets'[p] = w.bucket
                   /\ w.bucket.tokens = TokensAt(before, p, read, TokenCapacity(p))]_vars

\* The token bucket of openai is in debt after an upstream call that used
\* more than its estimate, and a check with an estimate of 3 is turned away
\* with a wait that covers the debt as well as the 3 tokens.
C25_Witness ==
    /\ last.op = "check_rate_limit"
    /\ last.outcome = "token_limit"
    /\ last.provider = "openai"
    /\ last.estimated_tokens = 3
    /\ token_buckets["openai"].tokens < 0
    /\ last.needed = Fx(3) - token_buckets["openai"].tokens
    /\ last.rate = OverrideTokensPerMinute

----------------------------------------------------------------------------
\* The first time, not before time `from`, at which bucket b has been left
\* for (n - tokens) / refill_rate since its last refill.
FirstSufficient(b, n, from) ==
    LET short == Fx(n) - b.tokens
        ticks == IF short <= 0 THEN 0
                 ELSE (short + b.refill_rate - 1) \div b.refill_rate
    IN Max(from, b.last_refill + ticks)

\* C26.  Refill makes up every deficit.  For every bucket of the limiter,
\* empty or in debt, every n up to its capacity and every later time t with
\* t - last_refill >= (n - tokens) / refill_rate (the first such time and
\* the Horizon ticks after it), consume(n) at t returns True if nothing was
\* taken in between; and a check_rate_limit that begins when its request
\* bucket and its token bucket have both waited that long is admitted.
C26_DeficitSelfCorrecting ==
    /\ [](\A m \in {request_buckets, token_buckets} :
           \A p \in DOMAIN m, n \in BucketAmounts \cup EstimatedTokens :
               n <= m[p].capacity =>
                   \A d \in 0..Horizon :
                       LET t == FirstSufficient(m[p], n, mono) + d
                       IN /\ (t - m[p].last_refill) * m[p].refill_rate
                                 >= Fx(n) - m[p].tokens
                          /\ Consume(m[p], n, t).ok)
    /\ [][(ApiCall /\ last'.op = "check_rate_limit" /\ enabled
              /\ last'.provider \in DOMAIN BeforeCall(last'.thread).limiters[1].token_buckets)
             => LET p == last'.provider
                    n == last'.estimated_tokens
                    began == BeforeCall(last'.thread)
                    rb == began.limiters[1].request_buckets[p]
                    tb == began.limiters[1].token_buckets[p]
                IN (/\ n <= tb.capacity
                    /\ (began.mono - rb.last_refill) * rb.refill_rate >= Fx(1) - rb.tokens
                    /\ (began.mono - tb.last_refill) * tb.refill_rate >= Fx(n) - tb.tokens)
                       => last'.outcome = "returned"]_vars

\* The token bucket of openai is in debt after an upstream call that used
\* more than its estimate, and consume(3) fails one tick before the wait is
\* over and succeeds when it is; the request bucket of test_provider (one
\* request per minute) was emptied and a second request, a minute after the
\* first, was admitted.
C26_Witness ==
    /\ "openai" \in DOMAIN token_buckets
    /\ token_buckets["openai"].tokens < 0
    /\ LET t == FirstSufficient(token_buckets["openai"], 3, mono)
       IN /\ t > mono
          /\ ~Consume(token_buckets["openai"], 3, t - 1).ok
          /\ Consume(token_buckets["openai"], 3, t).ok
    /\ last.op = "check_rate_limit"
    /\ last.provider = "test_provider"
    /\ last.outcome = "returned"
    /\ "test_provider" \in DOMAIN usage_stats
    /\ usage_stats["test_provider"].requests = 2
    /\ request_buckets["test_provider"].tokens = 0
    /\ request_buckets["test_provider"].last_refill = TicksPerMinute

----------------------------------------------------------------------------
\* C29.  The retry-after hint is sufficient: when check_rate_limit was
\* turned away with a wait of needed / rate, nothing else has used the
\* limiter since, and the same call begins once that wait has passed since
\* the wait was computed, the call is admitted.
C29_RetryAfterSufficient ==
    [][(/\ ApiCall
        /\ last.op = "check_rate_limit"
        /\ last.outcome \in {"request_limit", "token_limit"}
        /\ last'.op = "check_rate_limit"
        /\ last'.provider = last.provider
        /\ last'.estimated_tokens = last.estimated_tokens)
          => LET began == BeforeCall(last'.thread)
                 L == began.limiters[1]
                 rejected == IF last.outcome = "request_limit"
                             THEN L.request_buckets[last.provider]
                             ELSE L.token_buckets[last.provider]
             IN (began.mono - rejected.last_refill) * last.rate >= last.needed
                    => last'.outcome = "returned"]_vars
====
